---- MODULE Spec2Model ----
(***************************************************************************)
(* Session-and-synchronization protocol of the Room component (src/App.tsx)*)
(* One Host process, the Guest processes that run the same component, and  *)
(* one foreign peer that speaks the wire protocol but does not run the     *)
(* component (it can open several links with one identity and put any      *)
(* protocol message on them).                                              *)
(*                                                                         *)
(* React state updates made by a handler are taken together with the       *)
(* handler: one action is one event handler run to completion, with the    *)
(* state updaters it queued.  setTimeout callbacks are actions of their    *)
(* own.  The timestamp field of a message (Date.now()) is left out: no     *)
(* handler reads it.  Of the Chat component (src/components/Chat.tsx) the   *)
(* model has handleInput with its quiet-period timer, and handleSend with  *)
(* its call of the assistant, which settles in an action of its own.       *)
(* A Guest's peer accepts connections as the Host's does; the foreign peer *)
(* may open one to a Guest.                                                *)
(***************************************************************************)
EXTENDS Naturals, Sequences, FiniteSets, TLC

(* ---------------------------------------------------------------- bounds *)
\* rogue links: how many links the foreign peer may open with its identity
MaxLinks == 2
\* local chat messages a process may send
MaxSend == 2
\* local chat messages a process may send in the scenarios that are not about the
\* order of messages
OneSend == 1
\* raw protocol messages the foreign peer may put on its links
MaxRaw == 2
\* moderation commands issued from the user interfaces (Host and Guests)
MaxAdmin == 2
\* messages in flight on one direction of a link: a handler that would send into
\* a full direction waits until the receiver has taken a message
MaxChan == 2
\* onTyping calls per process
MaxTyping == 4

(* ------------------------------------------------------------ identities *)
HOST_PREFIX == "gemini-chat-host-"
roomCode == "ABC234"
hostPeerId == HOST_PREFIX \o roomCode

\* identities the transport assigns to the Guest processes (same 4-char prefix)
Guests == {"abcd-1", "abcd-2"}
\* identity of the foreign peer
Rogue == "wxyz-9"

Procs == {hostPeerId} \cup Guests
Identities == Procs \cup {Rogue}

\* peerInstance.current === null, and a Peer whose id is not assigned yet
NullPeer == "null"
NoId == "undefined"

\* location.state?.isHost of the route that shows the room in a process: the lobby
\* passes true on create and false on join, a page reload passes nothing
locationState(p) ==
  CASE p = hostPeerId -> "true"
    [] p = "abcd-1" -> "false"
    [] OTHER -> "absent"

\* err.type of the errors a Peer may emit
ErrorTypes == {"unavailable-id", "network"}

UserRole == {"HOST", "MANAGER", "GUEST"}
AdminActions == {"PROMOTE", "DEMOTE", "KICK", "BAN"}

\* a link is one data connection towards the Host, named by its initiator
Links == {<<g, 1>> : g \in Guests} \cup {<<Rogue, k>> : k \in 1..MaxLinks}
Initiator(l) == l[1]

\* a Guest's peer accepts connections too: the data connection that the foreign
\* peer opens to the Guest whose id it has read in a participant list
DirectGuest == "abcd-1"
DirectLinks == {<<Rogue, 0>>}
AllLinks == Links \cup DirectLinks
\* the peer that receives the 'connection' event of a link
Target(l) == IF l \in DirectLinks THEN DirectGuest ELSE hostPeerId

VARIABLES
  peerInstance,   \* peerInstance.current?.id per process (NullPeer, NoId or an id)
  peerId,         \* React state peerId
  isHost,         \* React state isHost
  kickReason,     \* React state kickReason ("null" when unset)
  participants,   \* React state participants: sequence of Participant
  messages,       \* React state messages: sequence of ChatMessage
  typingUsers,    \* React state typingUsers: set of identities
  connectionsRef, \* connectionsRef.current: sequence of [key, conn], insertion order
  bannedPeers,    \* bannedPeersRef.current
  connA,          \* state of a link's connection object at its initiator
  connB,          \* state of a link's connection object at the accepting peer
  rejected,       \* the Host registered only the ban-path open handler on the link
  toHost,         \* messages in flight towards the accepting peer, per link
  toPeer,         \* messages in flight towards the initiator, per link
  closeTimers,    \* links with a pending setTimeout(() => conn.close(), 500)
  syncTimers,     \* number of pending setTimeout(broadcastParticipantList, 0)
  nextUuid,       \* per process: number of uuidv4() ids drawn so far
  rawSent,        \* raw messages the foreign peer has sent
  adminCount,     \* moderation commands issued from the user interfaces
  pendingReplies, \* per process: the calls of generateAIResponse that have not
                  \* settled, each with what its sendMessage closure holds
  typingTimeoutRef, \* per process: typingTimeoutRef.current of Chat is set
  onTypingCalls,  \* per process: the arguments of the onTyping calls Chat has made
  last            \* the handler that ran last: what it was given and what it sent

procVars == <<peerInstance, peerId, isHost, kickReason, participants, messages,
              typingUsers, connectionsRef, bannedPeers>>
netVars == <<connA, connB, rejected, toHost, toPeer>>
timerVars == <<closeTimers, syncTimers>>
budgetVars == <<nextUuid, rawSent, adminCount>>
chatVars == <<pendingReplies, typingTimeoutRef, onTypingCalls>>
vars == <<procVars, netVars, timerVars, budgetVars, chatVars, last>>

NoLink == <<>>
NoMsg == [type |-> "none"]
Event(op, p, l, m, sent) == [op |-> op, proc |-> p, link |-> l, msg |-> m, sent |-> sent]

(* ------------------------------------------------------- list operations *)
Ids(list) == {list[i].id : i \in 1..Len(list)}
Keys(reg) == [i \in 1..Len(reg) |-> reg[i].key]
KeySet(reg) == {reg[i].key : i \in 1..Len(reg)}
\* Array.prototype.find: the first entry with the id
Find(list, id) == list[CHOOSE i \in 1..Len(list) :
                         /\ list[i].id = id
                         /\ \A j \in 1..(i-1) : list[j].id # id]
\* connectionsRef.current[key]
Lookup(reg, key) == reg[CHOOSE i \in 1..Len(reg) : reg[i].key = key].conn
\* connectionsRef.current[key] = conn: an existing key keeps its place
Register(reg, key, conn) ==
  IF key \in KeySet(reg)
  THEN [i \in 1..Len(reg) |-> IF reg[i].key = key THEN [key |-> key, conn |-> conn] ELSE reg[i]]
  ELSE Append(reg, [key |-> key, conn |-> conn])
\* delete connectionsRef.current[key]
Unregister(reg, key) == SelectSeq(reg, LAMBDA e : e.key # key)

DefaultName(id) == "User " \o SubSeq(id, 1, 4)

addParticipant(prev, id, role) ==
  IF id \in Ids(prev)
  THEN IF Find(prev, id).role # role
       THEN [i \in 1..Len(prev) |->
               IF prev[i].id = id
               THEN [prev[i] EXCEPT !.role = role, !.isHost = (role = "HOST")]
               ELSE prev[i]]
       ELSE prev
  ELSE Append(prev, [id |-> id,
                     name |-> IF role = "HOST" THEN "Host" ELSE DefaultName(id),
                     role |-> role,
                     isHost |-> (role = "HOST")])

removeParticipantList(prev, id) == SelectSeq(prev, LAMBDA q : q.id # id)

(* ------------------------------------------------------------- transport *)
\* the connection object a process holds for a link, and the peer it names
LocalEnd(p, l) == IF p = Target(l) THEN connB[l] ELSE connA[l]
ConnPeer(p, l) == IF p = Target(l) THEN Initiator(l) ELSE Target(l)
ConnOpen(p, l) == LocalEnd(p, l) = "open"
LinksOf(p) == IF p = hostPeerId THEN Links ELSE {<<p, 1>>}
InboundOf(p) == {l \in DirectLinks : Target(l) = p}

\* what a send on link l by process p reaches: the foreign peer's receptions are
\* not queued (only recorded in last.sent), and a closed far end drops the message
Queued(p, l) ==
  IF p = Target(l) THEN Initiator(l) \in Guests /\ connA[l] # "closed"
  ELSE connB[l] # "closed"

RECURSIVE Push(_, _, _)
Push(p, q, out) ==
  IF out = <<>> THEN q
  ELSE LET l == Head(out)[1]
           m == Head(out)[2]
       IN Push(p, IF Queued(p, l) THEN [q EXCEPT ![l] = Append(@, m)] ELSE q, Tail(out))

\* the sends of p that it makes as the accepting (or as the initiating) peer
OutAs(p, out, accepting) ==
  SelectSeq(out, LAMBDA e : (p = Target(e[1])) = accepting)

\* the queues after process p has sent `out`: what the initiator of a link sends
\* travels in toHost, what the accepting peer sends travels in toPeer
Queues(p, inHost, inPeer, out) ==
  /\ toHost' = Push(p, inHost, OutAs(p, out, FALSE))
  /\ toPeer' = Push(p, inPeer, OutAs(p, out, TRUE))

InFlightBounded ==
  \A l \in AllLinks : Len(toHost[l]) <= MaxChan /\ Len(toPeer[l]) <= MaxChan

(* ------------------------------------------------------------------ Init *)
\* initPeer: setupGuest when the route says isHost === false, setupHost otherwise
initPeer(p) == IF locationState(p) = "false" THEN NoId ELSE hostPeerId

\* The state after the mount effect has run initPeer in the Host process and in
\* the processes of `present`; the other processes never show the room.
InitWith(present) ==
  /\ peerInstance = [p \in Procs |-> IF p = hostPeerId \/ p \in present
                                     THEN initPeer(p) ELSE NullPeer]
  /\ peerId = [p \in Procs |-> ""]
  /\ isHost = [p \in Procs |-> FALSE]
  /\ kickReason = [p \in Procs |-> "null"]
  /\ participants = [p \in Procs |-> <<>>]
  /\ messages = [p \in Procs |-> <<>>]
  /\ typingUsers = [p \in Procs |-> {}]
  /\ connectionsRef = [p \in Procs |-> <<>>]
  /\ bannedPeers = [p \in Procs |-> {}]
  /\ connA = [l \in AllLinks |-> "none"]
  /\ connB = [l \in AllLinks |-> "none"]
  /\ rejected = [l \in AllLinks |-> FALSE]
  /\ toHost = [l \in AllLinks |-> <<>>]
  /\ toPeer = [l \in AllLinks |-> <<>>]
  /\ closeTimers = {}
  /\ syncTimers = 0
  /\ nextUuid = [p \in Procs |-> 0]
  /\ rawSent = 0
  /\ adminCount = 0
  /\ pendingReplies = [p \in Procs |-> <<>>]
  /\ typingTimeoutRef = [p \in Procs |-> FALSE]
  /\ onTypingCalls = [p \in Procs |-> <<>>]
  /\ last = Event("init", "", NoLink, NoMsg, <<>>)

Init == InitWith(Guests)

(* ------------------------------------------------------ handler results *)
\* What one handler run does to the state of the process that runs it: the new
\* React state and refs, the messages it sends (out: <<link, message>> in sending
\* order), the timers it starts, and whether it ran cleanup().
Keep(p) == [parts |-> participants[p], msgs |-> messages[p],
            typing |-> typingUsers[p], banned |-> bannedPeers[p],
            out |-> <<>>, timers |-> {}, syncs |-> 0,
            kicked |-> FALSE, reason |-> "null"]

LocalEnds(p) == [l \in AllLinks |-> LocalEnd(p, l)]

SyncPayload(myId, currentList, reg) ==
  LET connectedIds == Keys(reg)
      kept == SelectSeq(currentList, LAMBDA q : q.id = myId \/ q.id \in KeySet(reg))
      missing == SelectSeq(connectedIds, LAMBDA cid : cid \notin Ids(kept))
  IN kept \o [i \in 1..Len(missing) |->
                [id |-> missing[i], name |-> DefaultName(missing[i]),
                 role |-> "GUEST", isHost |-> FALSE]]

\* broadcastParticipantList, run against the list, registry and connection states
\* the updater finds: [list |-> the new participants, out |-> the sends]
broadcastParticipantList(p, currentList, reg, ends) ==
  LET myId == peerInstance[p] IN
  IF myId \in {NullPeer, NoId} THEN [list |-> currentList, out |-> <<>>]
  ELSE LET updatedList == SyncPayload(myId, currentList, reg)
           openConns == SelectSeq(reg, LAMBDA e : ends[e.conn] = "open")
       IN [list |-> updatedList,
           out |-> [i \in 1..Len(openConns) |->
                      <<openConns[i].conn,
                        [type |-> "SYNC_PARTICIPANTS", payload |-> updatedList]>>]]

NoExclude == "undefined"

\* mutant of broadcastData: the state of the connection is not looked at
broadcastDataAnyState(p, data, excludePeerId) ==
  LET targets == SelectSeq(connectionsRef[p],
                   LAMBDA e : ConnPeer(p, e.conn) # excludePeerId)
  IN [i \in 1..Len(targets) |-> <<targets[i].conn, data>>]

broadcastData(p, data, excludePeerId) ==
  LET targets == SelectSeq(connectionsRef[p],
                   LAMBDA e : ConnOpen(p, e.conn) /\ ConnPeer(p, e.conn) # excludePeerId)
  IN [i \in 1..Len(targets) |-> <<targets[i].conn, data>>]

KickedMsg(reason) == [type |-> "KICKED", reason |-> reason]

\* mutant of executeAdminAction: BAN records the target only when the target has
\* an open link
executeAdminActionBanOpenOnly(p, action, targetId) ==
  IF peerInstance[p] # hostPeerId THEN Keep(p)
  ELSE LET hasConn == targetId \in KeySet(connectionsRef[p])
           conn == Lookup(connectionsRef[p], targetId)
           setRole(role) == [i \in 1..Len(participants[p]) |->
                               IF participants[p][i].id = targetId
                               THEN [participants[p][i] EXCEPT !.role = role]
                               ELSE participants[p][i]]
       IN CASE action = "PROMOTE" ->
                 [Keep(p) EXCEPT !.parts = setRole("MANAGER"), !.syncs = 1]
            [] action = "DEMOTE" ->
                 [Keep(p) EXCEPT !.parts = setRole("GUEST"), !.syncs = 1]
            [] action \in {"KICK", "BAN"} ->
                 IF hasConn /\ ConnOpen(p, conn)
                 THEN [Keep(p) EXCEPT
                         !.banned = IF action = "BAN" THEN @ \cup {targetId} ELSE @,
                         !.out = <<<<conn, KickedMsg(IF action = "BAN"
                                   THEN "You have been banned from this room."
                                   ELSE "You have been kicked by an admin.")>>>>,
                         !.timers = {conn}]
                 ELSE Keep(p)
            [] OTHER -> Keep(p)

executeAdminAction(p, action, targetId) ==
  IF peerInstance[p] # hostPeerId THEN Keep(p)
  ELSE LET hasConn == targetId \in KeySet(connectionsRef[p])
           conn == Lookup(connectionsRef[p], targetId)
           setRole(role) == [i \in 1..Len(participants[p]) |->
                               IF participants[p][i].id = targetId
                               THEN [participants[p][i] EXCEPT !.role = role]
                               ELSE participants[p][i]]
       IN CASE action = "PROMOTE" ->
                 [Keep(p) EXCEPT !.parts = setRole("MANAGER"), !.syncs = 1]
            [] action = "DEMOTE" ->
                 [Keep(p) EXCEPT !.parts = setRole("GUEST"), !.syncs = 1]
            [] action = "KICK" ->
                 IF hasConn /\ ConnOpen(p, conn)
                 THEN [Keep(p) EXCEPT
                         !.out = <<<<conn, KickedMsg("You have been kicked by an admin.")>>>>,
                         !.timers = {conn}]
                 ELSE Keep(p)
            [] action = "BAN" ->
                 IF hasConn /\ ConnOpen(p, conn)
                 THEN [Keep(p) EXCEPT
                         !.banned = @ \cup {targetId},
                         !.out = <<<<conn, KickedMsg("You have been banned from this room.")>>>>,
                         !.timers = {conn}]
                 ELSE [Keep(p) EXCEPT !.banned = @ \cup {targetId}]
            [] OTHER -> Keep(p)

\* The `participants` that handleAdminRequest reads.  handleDataConnection is
\* registered once, by the mount effect (its dependencies never change while the
\* room is shown), so the handlers it installs close over the first render, where
\* participants is the initial useState value.
closureParticipants(p) == <<>>

\* mutants of handleAdminRequest: each reads the directory the Host holds and
\* leaves out one of the checks
handleAdminRequestAnyRequester(p, payload, requesterId) ==
  LET list == participants[p] IN
  IF payload.targetId \notin Ids(list) THEN Keep(p)
  ELSE IF Find(list, payload.targetId).role = "HOST" THEN Keep(p)
  ELSE IF requesterId \in Ids(list)
          /\ Find(list, requesterId).role = "MANAGER"
          /\ Find(list, payload.targetId).role = "MANAGER" THEN Keep(p)
  ELSE executeAdminAction(p, payload.action, payload.targetId)

handleAdminRequestManagerOnManager(p, payload, requesterId) ==
  LET list == participants[p] IN
  IF requesterId \notin Ids(list) THEN Keep(p)
  ELSE IF Find(list, requesterId).role \notin {"MANAGER", "HOST"} THEN Keep(p)
  ELSE IF payload.targetId \notin Ids(list) THEN Keep(p)
  ELSE IF Find(list, payload.targetId).role = "HOST" THEN Keep(p)
  ELSE executeAdminAction(p, payload.action, payload.targetId)

handleAdminRequestOnHost(p, payload, requesterId) ==
  LET list == participants[p] IN
  IF requesterId \notin Ids(list) THEN Keep(p)
  ELSE IF Find(list, requesterId).role \notin {"MANAGER", "HOST"} THEN Keep(p)
  ELSE IF payload.targetId \notin Ids(list) THEN Keep(p)
  ELSE IF Find(list, requesterId).role = "MANAGER"
          /\ Find(list, payload.targetId).role = "MANAGER" THEN Keep(p)
  ELSE executeAdminAction(p, payload.action, payload.targetId)

handleAdminRequest(p, payload, requesterId) ==
  LET list == closureParticipants(p) IN
  IF requesterId \notin Ids(list) THEN Keep(p)
  ELSE IF Find(list, requesterId).role \notin {"MANAGER", "HOST"} THEN Keep(p)
  ELSE IF payload.targetId \notin Ids(list) THEN Keep(p)
  ELSE IF Find(list, payload.targetId).role = "HOST" THEN Keep(p)
  ELSE IF Find(list, requesterId).role = "MANAGER"
          /\ Find(list, payload.targetId).role = "MANAGER" THEN Keep(p)
  ELSE executeAdminAction(p, payload.action, payload.targetId)

\* mutant of appendMessage: the log takes the message without looking for its id
appendMessageNoDedup(prev, message) == Append(prev, message)

\* mutant of appendMessage: a new message goes to the front of the log
appendMessageFront(prev, message) ==
  IF \E i \in 1..Len(prev) : prev[i].id = message.id THEN prev ELSE <<message>> \o prev

appendMessage(prev, message) ==
  IF \E i \in 1..Len(prev) : prev[i].id = message.id THEN prev ELSE Append(prev, message)

\* mutant of syncParticipants: the payload is merged into the list held
syncParticipantsMerge(prev, payload) ==
  prev \o SelectSeq(payload, LAMBDA q : q.id \notin Ids(prev))

\* setParticipants(data.payload)
syncParticipants(prev, payload) == payload

SameReaction(r, senderId, emoji) == r.senderId = senderId /\ r.emoji = emoji

\* mutant of applyReaction: 'add' appends without looking for the pair
applyReactionNoCheck(prev, rp) ==
  [i \in 1..Len(prev) |->
     IF prev[i].id = rp.messageId
     THEN [prev[i] EXCEPT !.reactions =
             IF rp.action = "remove"
             THEN SelectSeq(@, LAMBDA r : ~SameReaction(r, rp.senderId, rp.emoji))
             ELSE Append(@, [emoji |-> rp.emoji, senderId |-> rp.senderId,
                             senderName |-> rp.senderName])]
     ELSE prev[i]]

applyReaction(prev, rp) ==
  [i \in 1..Len(prev) |->
     IF prev[i].id = rp.messageId
     THEN LET old == prev[i].reactions IN
          [prev[i] EXCEPT !.reactions =
             IF rp.action = "remove"
             THEN SelectSeq(old, LAMBDA r : ~SameReaction(r, rp.senderId, rp.emoji))
             ELSE IF \E k \in 1..Len(old) : SameReaction(old[k], rp.senderId, rp.emoji)
                  THEN old
                  ELSE Append(old, [emoji |-> rp.emoji, senderId |-> rp.senderId,
                                    senderName |-> rp.senderName])]
     ELSE prev[i]]

\* mutant of setTyping: every typing notice flips the mark of the identity
setTypingToggle(prev, userId, isTyping) ==
  IF userId \in prev THEN prev \ {userId} ELSE prev \cup {userId}

\* the setTypingUsers updater of the data handler
setTyping(prev, userId, isTyping) ==
  IF isTyping THEN prev \cup {userId} ELSE prev \ {userId}

\* mutant of relayData: every process passes on what it takes, to all its links
relayDataEcho(p, l, data) == broadcastData(p, data, NoExclude)

\* the relay of the data handler: the Host passes the message on to the others
relayData(p, l, data) ==
  IF peerInstance[p] = hostPeerId THEN broadcastData(p, data, ConnPeer(p, l)) ELSE <<>>

\* conn.on('data') of handleDataConnection
onData(p, l, data) ==
  LET relay == relayData(p, l, data)
  IN CASE data.type = "CHAT" ->
            [Keep(p) EXCEPT !.msgs = appendMessage(@, data.payload), !.out = relay]
       [] data.type = "SYNC_PARTICIPANTS" ->
            [Keep(p) EXCEPT !.parts = syncParticipants(@, data.payload)]
       [] data.type = "REACTION" ->
            [Keep(p) EXCEPT !.msgs = applyReaction(@, data.payload), !.out = relay]
       [] data.type = "TYPING" ->
            [Keep(p) EXCEPT
               !.typing = setTyping(@, data.payload.userId, data.payload.isTyping),
               !.out = relay]
       [] data.type = "KICKED" ->
            [Keep(p) EXCEPT !.kicked = TRUE, !.reason = data.reason]
       [] data.type = "ADMIN_REQUEST" ->
            IF peerInstance[p] = hostPeerId
            THEN handleAdminRequest(p, data.payload, ConnPeer(p, l))
            ELSE Keep(p)
       [] OTHER -> Keep(p)

\* conn.on('open') of handleDataConnection (ends: the connection states with this
\* link open), and the open handler of the ban path
onOpen(p, l, ends) ==
  IF p = hostPeerId /\ rejected[l]
  THEN [Keep(p) EXCEPT
          !.out = <<<<l, KickedMsg("You are banned from this room.")>>>>,
          !.timers = {l}]
  ELSE LET remote == ConnPeer(p, l)
           added == addParticipant(participants[p], remote,
                                   IF remote = hostPeerId THEN "HOST" ELSE "GUEST")
       IN IF peerInstance[p] = hostPeerId
          THEN LET b == broadcastParticipantList(p, added, connectionsRef[p], ends)
               IN [Keep(p) EXCEPT !.parts = b.list, !.out = b.out]
          ELSE [Keep(p) EXCEPT !.parts = added]

\* conn.on('close') of handleDataConnection, after the delete (reg: the registry
\* without conn.peer; ends: the connection states with this link closed)
onClose(p, l, reg, ends) ==
  IF peerInstance[p] = hostPeerId
  THEN LET b == broadcastParticipantList(p, participants[p], reg, ends)
       IN [Keep(p) EXCEPT !.parts = b.list, !.out = b.out]
  ELSE [Keep(p) EXCEPT
          !.parts = removeParticipantList(@, ConnPeer(p, l)),
          !.typing = @ \ {ConnPeer(p, l)}]

(* --------------------------------------------------------------- effects *)
\* the React state and refs of p after a handler that did not run cleanup()
Apply(p, r) ==
  /\ participants' = [participants EXCEPT ![p] = r.parts]
  /\ messages' = [messages EXCEPT ![p] = r.msgs]
  /\ typingUsers' = [typingUsers EXCEPT ![p] = r.typing]
  /\ bannedPeers' = [bannedPeers EXCEPT ![p] = r.banned]

\* the timers a handler started
StartTimers(r) ==
  /\ closeTimers' = closeTimers \cup r.timers
  /\ syncTimers' = syncTimers + r.syncs

\* mutant of CleanupProc: the participant list is not reset
CleanupProcKeepsDirectory(p) ==
  /\ peerInstance' = [peerInstance EXCEPT ![p] = NullPeer]
  /\ connectionsRef' = [connectionsRef EXCEPT ![p] = <<>>]
  /\ messages' = [messages EXCEPT ![p] = <<>>]
  /\ UNCHANGED participants
  /\ typingUsers' = [typingUsers EXCEPT ![p] = {}]
  /\ bannedPeers' = [bannedPeers EXCEPT ![p] = {}]

\* cleanup(): the process state
CleanupProc(p) ==
  /\ peerInstance' = [peerInstance EXCEPT ![p] = NullPeer]
  /\ connectionsRef' = [connectionsRef EXCEPT ![p] = <<>>]
  /\ messages' = [messages EXCEPT ![p] = <<>>]
  /\ participants' = [participants EXCEPT ![p] = <<>>]
  /\ typingUsers' = [typingUsers EXCEPT ![p] = {}]
  /\ bannedPeers' = [bannedPeers EXCEPT ![p] = {}]

ClosedEnd(s) == IF s \in {"pending", "open"} THEN "closed" ELSE s

\* cleanup(): peer.destroy() closes every connection of the process
CleanupNet(p) ==
  /\ connB' = [l \in AllLinks |-> IF Target(l) = p THEN ClosedEnd(connB[l])
                                   ELSE connB[l]]
  /\ connA' = [l \in AllLinks |-> IF Initiator(l) = p THEN ClosedEnd(connA[l])
                                   ELSE connA[l]]
  /\ toHost' = [l \in AllLinks |-> IF Target(l) = p THEN <<>> ELSE toHost[l]]
  /\ toPeer' = [l \in AllLinks |-> IF Initiator(l) = p THEN <<>> ELSE toPeer[l]]
  /\ UNCHANGED rejected

\* setupHost: peer.on('open')
HostPeerOpen ==
  /\ peerInstance[hostPeerId] = hostPeerId
  /\ peerId[hostPeerId] = ""
  /\ peerId' = [peerId EXCEPT ![hostPeerId] = hostPeerId]
  /\ isHost' = [isHost EXCEPT ![hostPeerId] = TRUE]
  /\ participants' = [participants EXCEPT
                        ![hostPeerId] = addParticipant(@, hostPeerId, "HOST")]
  /\ last' = Event("peerOpen", hostPeerId, NoLink, NoMsg, <<>>)
  /\ UNCHANGED <<peerInstance, kickReason, messages, typingUsers, connectionsRef,
                 bannedPeers, netVars, timerVars, budgetVars>>
  /\ UNCHANGED chatVars

\* The Host identity is bound by a process other than p.  The process named by the
\* Host identity is the one whose bind the signalling server serves first.
HostIdTaken(p) ==
  \E q \in Procs \ {p} : peerInstance[q] = hostPeerId /\ peerId[q] = hostPeerId

\* mutant of HostPeerError: the unavailable-id error is only logged
HostPeerErrorLogged(p, type) ==
  /\ peerInstance[p] = hostPeerId
  /\ peerId[p] = ""
  /\ type = "unavailable-id" => HostIdTaken(p)
  /\ last' = Event("peerError", p, NoLink, [type |-> "error", err |-> type], <<>>)
  /\ UNCHANGED <<procVars, netVars, timerVars, budgetVars>>
  /\ UNCHANGED chatVars

\* setupHost: peer.on('error') while the bind is pending.  unavailable-id: the
\* peer is destroyed and setupGuest() makes a Peer without an id; any other
\* error is written to the console.
HostPeerError(p, type) ==
  /\ peerInstance[p] = hostPeerId
  /\ peerId[p] = ""
  /\ type = "unavailable-id" => HostIdTaken(p)
  /\ peerInstance' = [peerInstance EXCEPT
                        ![p] = IF type = "unavailable-id" THEN NoId ELSE @]
  /\ last' = Event("peerError", p, NoLink, [type |-> "error", err |-> type], <<>>)
  /\ UNCHANGED <<peerId, isHost, kickReason, participants, messages, typingUsers,
                 connectionsRef, bannedPeers, netVars, timerVars, budgetVars>>
  /\ UNCHANGED chatVars

\* mutant of GuestPeerOpen: the Host is entered in the directory on connecting
GuestPeerOpenListsHost(g) ==
  /\ peerInstance[g] = NoId
  /\ peerInstance' = [peerInstance EXCEPT ![g] = g]
  /\ peerId' = [peerId EXCEPT ![g] = g]
  /\ isHost' = [isHost EXCEPT ![g] = FALSE]
  /\ participants' = [participants EXCEPT
        ![g] = addParticipant(addParticipant(@, g, "GUEST"), hostPeerId, "HOST")]
  /\ connA' = [connA EXCEPT ![<<g, 1>>] = "pending"]
  /\ connectionsRef' = [connectionsRef EXCEPT ![g] = Register(@, hostPeerId, <<g, 1>>)]
  /\ last' = Event("peerOpen", g, <<g, 1>>, NoMsg, <<>>)
  /\ UNCHANGED <<kickReason, messages, typingUsers, bannedPeers, connB, rejected,
                 toHost, toPeer, timerVars, budgetVars>>
  /\ UNCHANGED chatVars

\* setupGuest: guestPeer.on('open'), with connectToHost and the
\* handleDataConnection of the outbound connection
GuestPeerOpen(g) ==
  /\ peerInstance[g] = NoId
  /\ peerInstance' = [peerInstance EXCEPT ![g] = g]
  /\ peerId' = [peerId EXCEPT ![g] = g]
  /\ isHost' = [isHost EXCEPT ![g] = FALSE]
  /\ participants' = [participants EXCEPT ![g] = addParticipant(@, g, "GUEST")]
  /\ connA' = [connA EXCEPT ![<<g, 1>>] = "pending"]
  /\ connectionsRef' = [connectionsRef EXCEPT ![g] = Register(@, hostPeerId, <<g, 1>>)]
  /\ last' = Event("peerOpen", g, <<g, 1>>, NoMsg, <<>>)
  /\ UNCHANGED <<kickReason, messages, typingUsers, bannedPeers, connB, rejected,
                 toHost, toPeer, timerVars, budgetVars>>
  /\ UNCHANGED chatVars

\* the registry after handleDataConnection(conn) up to the handler registration
registerConnection(p, l) ==
  IF peerInstance[p] = hostPeerId /\ ConnPeer(p, l) \in bannedPeers[p]
  THEN connectionsRef[p]
  ELSE Register(connectionsRef[p], ConnPeer(p, l), l)

\* the Host's peer.on('connection'): handleDataConnection(conn).  A Guest's link
\* arrives after its connect; the foreign peer connects whenever it likes (its
\* links in the order of their numbers).
HostConnection(l) ==
  /\ peerInstance[hostPeerId] = hostPeerId
  /\ peerId[hostPeerId] # ""
  /\ connB[l] = "none"
  /\ IF Initiator(l) = Rogue
     THEN /\ connA[l] = "none"
          /\ \A k \in 1..(l[2] - 1) : connA[<<Rogue, k>>] # "none"
          /\ connA' = [connA EXCEPT ![l] = "open"]
     ELSE /\ connA[l] = "pending"
          /\ UNCHANGED connA
  /\ connB' = [connB EXCEPT ![l] = "pending"]
  /\ rejected' = [rejected EXCEPT
                    ![l] = (Initiator(l) \in bannedPeers[hostPeerId])]
  /\ connectionsRef' = [connectionsRef EXCEPT
                          ![hostPeerId] = registerConnection(hostPeerId, l)]
  /\ last' = Event("connection", hostPeerId, l, NoMsg, <<>>)
  /\ UNCHANGED <<peerInstance, peerId, isHost, kickReason, participants, messages,
                 typingUsers, bannedPeers, toHost, toPeer, timerVars, budgetVars>>
  /\ UNCHANGED chatVars

\* a Guest's guestPeer.on('connection'): handleDataConnection(conn) for the
\* connection the foreign peer opens to the Guest
GuestConnection(l) ==
  /\ l \in DirectLinks
  /\ peerInstance[Target(l)] = Target(l)
  /\ connA[l] = "none"
  /\ connB[l] = "none"
  /\ connA' = [connA EXCEPT ![l] = "open"]
  /\ connB' = [connB EXCEPT ![l] = "pending"]
  /\ connectionsRef' = [connectionsRef EXCEPT
                          ![Target(l)] = registerConnection(Target(l), l)]
  /\ last' = Event("connection", Target(l), l, NoMsg, <<>>)
  /\ UNCHANGED <<peerInstance, peerId, isHost, kickReason, participants, messages,
                 typingUsers, bannedPeers, rejected, toHost, toPeer, timerVars,
                 budgetVars>>
  /\ UNCHANGED chatVars

\* the far end of a link, as the transport sees it from process p
RemoteEnd(p, l) == IF p = Target(l) THEN connA[l] ELSE connB[l]

\* the connection states after the connection object of p for link l has moved
SetLocalEnd(p, l, s) ==
  IF p = Target(l)
  THEN connB' = [connB EXCEPT ![l] = s] /\ UNCHANGED connA
  ELSE connA' = [connA EXCEPT ![l] = s] /\ UNCHANGED connB

\* conn 'open' at process p
LinkOpen(p, l) ==
  /\ l \in LinksOf(p) \cup InboundOf(p)
  /\ LocalEnd(p, l) = "pending"
  /\ RemoteEnd(p, l) \in {"pending", "open"}
  /\ LET ends == [LocalEnds(p) EXCEPT ![l] = "open"]
         r == onOpen(p, l, ends)
     IN /\ Apply(p, r)
        /\ StartTimers(r)
        /\ SetLocalEnd(p, l, "open")
        /\ Queues(p, toHost, toPeer, r.out)
        /\ last' = Event("open", p, l, NoMsg, r.out)
  /\ InFlightBounded'
  /\ UNCHANGED <<peerInstance, peerId, isHost, kickReason, connectionsRef, rejected,
                 budgetVars>>
  /\ UNCHANGED chatVars

\* the state after a data handler: cleanup() for KICKED, the handler's updates else
AfterData(p, l, data, r) ==
  /\ last' = Event("data", p, l, data, r.out)
  /\ IF r.kicked
     THEN /\ kickReason' = [kickReason EXCEPT ![p] = r.reason]
          /\ CleanupProc(p)
          /\ CleanupNet(p)
          /\ UNCHANGED <<peerId, isHost, timerVars>>
     ELSE /\ Apply(p, r)
          /\ StartTimers(r)
          /\ IF p = Target(l)
             THEN Queues(p, [toHost EXCEPT ![l] = IF @ = <<>> THEN @ ELSE Tail(@)],
                         toPeer, r.out)
             ELSE Queues(p, toHost, [toPeer EXCEPT ![l] = Tail(@)], r.out)
          /\ InFlightBounded'
          /\ UNCHANGED <<peerInstance, peerId, isHost, kickReason, connectionsRef,
                         connA, connB, rejected>>

\* conn 'data' at process p: the next message a Guest process sent, or the Host
\* sent to a Guest process
Data(p, l) ==
  /\ l \in LinksOf(p)
  /\ Initiator(l) \in Guests
  /\ ConnOpen(p, l)
  /\ LET inbox == IF p = Target(l) THEN toHost[l] ELSE toPeer[l] IN
     /\ inbox # <<>>
     /\ AfterData(p, l, Head(inbox),
                  IF p = hostPeerId /\ rejected[l] THEN Keep(p)
                  ELSE onData(p, l, Head(inbox)))
  /\ UNCHANGED budgetVars
  /\ UNCHANGED chatVars

(* -------------------------------------------------------- foreign peer *)
\* ids of chat messages that exist so far, and one of the foreign peer's own
KnownMessageIds ==
  {<<q, n>> : q \in Procs, n \in 1..MaxSend} \cap
  UNION {{<<q, n>> : n \in 1..nextUuid[q]} : q \in Procs}
RogueMessageIds == KnownMessageIds \cup {<<Rogue, 1>>}

RogueLists ==
  { <<>>,
    <<[id |-> Rogue, name |-> "Host", role |-> "HOST", isHost |-> TRUE]>> }

\* the protocol messages the foreign peer may put on a link
RawChat ==
  {[type |-> "CHAT",
    payload |-> [id |-> i, senderId |-> Rogue, senderName |-> DefaultName(Rogue),
                 text |-> "forged", type |-> "USER", reactions |-> <<>>]]
     : i \in RogueMessageIds}
  \cup {[type |-> "REACTION",
         payload |-> [messageId |-> i, emoji |-> "+1", senderId |-> Rogue,
                      senderName |-> DefaultName(Rogue), action |-> "add"]]
          : i \in RogueMessageIds}

RawModeration ==
  {[type |-> "SYNC_PARTICIPANTS", payload |-> pl] : pl \in RogueLists}
  \cup {[type |-> "ADMIN_REQUEST", payload |-> [action |-> a, targetId |-> t]]
          : a \in AdminActions, t \in Identities}
  \cup {KickedMsg("forged")}

RawMsgs == RawChat \cup RawModeration

\* mutant of RogueData: the Host's data handler also runs on a link it has turned
\* away for the ban
RogueDataOnRejected(l, m) ==
  /\ Initiator(l) = Rogue
  /\ connA[l] = "open"
  /\ connB[l] = "open"
  /\ rawSent < MaxRaw
  /\ rawSent' = rawSent + 1
  /\ AfterData(Target(l), l, m, onData(Target(l), l, m))
  /\ UNCHANGED <<nextUuid, adminCount>>
  /\ UNCHANGED chatVars

\* conn 'data' at the accepting peer for a message the foreign peer sends on one
\* of its links
RogueData(l, m) ==
  /\ Initiator(l) = Rogue
  /\ connA[l] = "open"
  /\ connB[l] = "open"
  /\ rawSent < MaxRaw
  /\ rawSent' = rawSent + 1
  /\ AfterData(Target(l), l, m,
               IF rejected[l] THEN Keep(Target(l)) ELSE onData(Target(l), l, m))
  /\ UNCHANGED <<nextUuid, adminCount>>
  /\ UNCHANGED chatVars

\* the foreign peer closes one of its links
RogueClose(l) ==
  /\ Initiator(l) = Rogue
  /\ connA[l] = "open"
  /\ connA' = [connA EXCEPT ![l] = "closed"]
  /\ last' = Event("rogueClose", Rogue, l, NoMsg, <<>>)
  /\ UNCHANGED <<procVars, connB, rejected, toHost, toPeer, timerVars, budgetVars>>
  /\ UNCHANGED chatVars

(* ------------------------------------------------------------ link close *)
\* the connection object of p for link l leaves the open state and emits 'close':
\* conn.on('close') runs if handleDataConnection registered it
CloseLocal(p, l, op) ==
  LET ends == [LocalEnds(p) EXCEPT ![l] = "closed"]
      handled == ~(p = hostPeerId /\ rejected[l])
      reg == IF handled THEN Unregister(connectionsRef[p], ConnPeer(p, l))
             ELSE connectionsRef[p]
      r == IF handled THEN onClose(p, l, reg, ends) ELSE Keep(p)
  IN /\ connectionsRef' = [connectionsRef EXCEPT ![p] = reg]
     /\ Apply(p, r)
     /\ SetLocalEnd(p, l, "closed")
     /\ IF p = Target(l)
        THEN Queues(p, [toHost EXCEPT ![l] = <<>>], toPeer, r.out)
        ELSE Queues(p, toHost, [toPeer EXCEPT ![l] = <<>>], r.out)
     /\ last' = Event(op, p, l, NoMsg, r.out)
     /\ InFlightBounded'
     /\ UNCHANGED <<peerInstance, peerId, isHost, kickReason, rejected, budgetVars>>

\* conn 'close' at p after the far end closed the link
LinkClosed(p, l) ==
  /\ l \in LinksOf(p) \cup InboundOf(p)
  /\ LocalEnd(p, l) = "open"
  /\ RemoteEnd(p, l) = "closed"
  /\ CloseLocal(p, l, "close")
  /\ UNCHANGED timerVars
  /\ UNCHANGED chatVars

\* setTimeout(() => conn.close(), 500) fires on the Host
CloseTimer(l) ==
  /\ l \in closeTimers
  /\ closeTimers' = closeTimers \ {l}
  /\ UNCHANGED syncTimers
  /\ IF connB[l] = "open"
     THEN CloseLocal(hostPeerId, l, "closeTimer")
     ELSE /\ last' = Event("closeTimer", hostPeerId, l, NoMsg, <<>>)
          /\ UNCHANGED <<procVars, netVars, budgetVars>>
  /\ UNCHANGED chatVars

\* setTimeout(broadcastParticipantList, 0) fires on the Host
DeferredBroadcast ==
  /\ syncTimers > 0
  /\ syncTimers' = syncTimers - 1
  /\ LET b == broadcastParticipantList(hostPeerId, participants[hostPeerId],
                                       connectionsRef[hostPeerId], connB)
     IN /\ participants' = [participants EXCEPT ![hostPeerId] = b.list]
        /\ toPeer' = Push(hostPeerId, toPeer, b.out)
        /\ last' = Event("deferredBroadcast", hostPeerId, NoLink, NoMsg, b.out)
  /\ UNCHANGED <<peerInstance, peerId, isHost, kickReason, messages, typingUsers,
                 connectionsRef, bannedPeers, connA, connB, rejected, toHost,
                 closeTimers, budgetVars>>
  /\ InFlightBounded'
  /\ UNCHANGED chatVars

(* ---------------------------------------------------------- user actions *)
\* the component is mounted and has not run cleanup()
Mounted(p) == peerInstance[p] # NullPeer

\* the sends of a user action of process p
SendOut(p, out) == Queues(p, toHost, toPeer, out)

\* the name sendMessage finds for the local user
myName(p) ==
  IF peerId[p] \in Ids(participants[p])
  THEN Find(participants[p], peerId[p]).name
  ELSE IF isHost[p] THEN "Host" ELSE "User"

\* what the sendMessage of a render holds of that render
sendClosure(p) == [peerId |-> peerId[p], myName |-> myName(p)]

newMessage(p, closure, text, type) ==
  [id |-> <<p, nextUuid[p] + 1>>,
   senderId |-> closure.peerId,
   senderName |-> IF type = "AI" THEN "Gemini" ELSE closure.myName,
   text |-> text,
   type |-> type,
   reactions |-> <<>>]

\* sendMessage(text, type) of the render `closure`, called by the handler op after
\* the sends `before` of that handler
sendMessageFrom(p, closure, text, type, before, op) ==
  /\ nextUuid[p] < MaxSend
  /\ nextUuid' = [nextUuid EXCEPT ![p] = @ + 1]
  /\ LET m == newMessage(p, closure, text, type)
         data == [type |-> "CHAT", payload |-> m]
         out == before \o broadcastData(p, data, NoExclude)
     IN /\ messages' = [messages EXCEPT ![p] = Append(@, m)]
        /\ SendOut(p, out)
        /\ last' = Event(op, p, NoLink, data, out)
  /\ InFlightBounded'
  /\ UNCHANGED <<peerInstance, peerId, isHost, kickReason, participants, typingUsers,
                 connectionsRef, bannedPeers, connA, connB, rejected, timerVars,
                 rawSent, adminCount>>

\* the user of p sends a text that does not call the assistant
sendMessage(p, text) ==
  /\ Mounted(p)
  /\ sendMessageFrom(p, sendClosure(p), text, "USER", <<>>, "sendMessage")
  /\ UNCHANGED chatVars

(* ------------------------------------------------------------- assistant *)
UpperCase == "ABCDEFGHIJKLMNOPQRSTUVWXYZ"
LowerCase == "abcdefghijklmnopqrstuvwxyz"

toLowerChar(c) ==
  IF \E i \in 1..Len(UpperCase) : SubSeq(UpperCase, i, i) = c
  THEN LET i == CHOOSE k \in 1..Len(UpperCase) : SubSeq(UpperCase, k, k) = c
       IN SubSeq(LowerCase, i, i)
  ELSE c

RECURSIVE toLowerCase(_)
toLowerCase(text) ==
  IF Len(text) = 0 THEN text
  ELSE toLowerChar(SubSeq(text, 1, 1)) \o toLowerCase(SubSeq(text, 2, Len(text)))

startsWith(text, prefix) ==
  Len(text) >= Len(prefix) /\ SubSeq(text, 1, Len(prefix)) = prefix

includes(text, word) ==
  \E i \in 1..Len(text) :
     i + Len(word) - 1 <= Len(text) /\ SubSeq(text, i, i + Len(word) - 1) = word

\* handleSend: the text is an AI command or names the assistant
invokesAssistant(text) ==
  startsWith(toLowerCase(text), "@ai") \/ includes(toLowerCase(text), "gemini")

\* texts the users type
Texts == {"hi", "@AI hi"}

\* how a call of ai.models.generateContent ends: with a text, with no text, or
\* with an error
AssistantResults == {"text", "empty", "error"}

\* generateAIResponse: what the awaited call gives handleSend.  Its body is one
\* try block whose catch returns a string, so it never rejects.
generateAIResponse(result) ==
  [threw |-> FALSE,
   text |-> CASE result = "text" -> "reply"
              [] result = "empty" -> "I couldn't generate a response."
              [] OTHER -> "Sorry, I'm having trouble connecting to the AI right now."]

\* handleSend up to the await: the end of typing if the input box had reported
\* typing (wasTyping: typingTimeoutRef.current is set), the user's message, and
\* the call of the assistant
handleSend(p, text, wasTyping) ==
  /\ Mounted(p)
  /\ kickReason[p] = "null"
  /\ wasTyping = typingTimeoutRef[p]
  /\ typingTimeoutRef' = [typingTimeoutRef EXCEPT ![p] = FALSE]
  /\ onTypingCalls' = [onTypingCalls EXCEPT
        ![p] = IF wasTyping THEN Append(@, FALSE) ELSE @]
  /\ nextUuid[p] + Len(pendingReplies[p]) + (IF invokesAssistant(text) THEN 2 ELSE 1)
        <= MaxSend
  /\ LET stop == [type |-> "TYPING",
                  payload |-> [userId |-> peerId[p], isTyping |-> FALSE]]
         before == IF wasTyping THEN broadcastData(p, stop, NoExclude) ELSE <<>>
     IN sendMessageFrom(p, sendClosure(p), text, "USER", before, "handleSend")
  /\ pendingReplies' = [pendingReplies EXCEPT
        ![p] = IF invokesAssistant(text) THEN Append(@, sendClosure(p)) ELSE @]

\* handleSend after the await: the call of the assistant has settled
assistantSettled(p, result) ==
  /\ pendingReplies[p] # <<>>
  /\ pendingReplies' = [pendingReplies EXCEPT ![p] = Tail(@)]
  /\ UNCHANGED <<typingTimeoutRef, onTypingCalls>>
  /\ LET closure == Head(pendingReplies[p])
         response == generateAIResponse(result)
         op == IF result = "error" THEN "assistantFailed" ELSE "assistantReplied"
     IN IF response.threw
        THEN sendMessageFrom(p, closure, "I had a glitch.", "SYSTEM", <<>>, op)
        ELSE sendMessageFrom(p, closure, response.text, "AI", <<>>, op)

\* the TYPING notice that onTyping(isTyping) broadcasts (handleTyping of the Room)
typingData(p, isTyping) ==
  [type |-> "TYPING", payload |-> [userId |-> peerId[p], isTyping |-> isTyping]]

\* mutant of handleInput: every keystroke signals the start of typing
handleInputAlwaysSignals(p) ==
  /\ Mounted(p)
  /\ kickReason[p] = "null"
  /\ Len(onTypingCalls[p]) + 2 <= MaxTyping
  /\ LET out == broadcastData(p, typingData(p, TRUE), NoExclude)
     IN /\ onTypingCalls' = [onTypingCalls EXCEPT ![p] = Append(@, TRUE)]
        /\ SendOut(p, out)
        /\ last' = Event("handleInput", p, NoLink, typingData(p, TRUE), out)
  /\ typingTimeoutRef' = [typingTimeoutRef EXCEPT ![p] = TRUE]
  /\ InFlightBounded'
  /\ UNCHANGED <<procVars, connA, connB, rejected, timerVars, budgetVars,
                 pendingReplies>>

\* Chat's handleInput: a keystroke in the message box
handleInput(p) ==
  /\ Mounted(p)
  /\ kickReason[p] = "null"
  /\ IF typingTimeoutRef[p]
     THEN /\ last' = Event("handleInput", p, NoLink, NoMsg, <<>>)
          /\ UNCHANGED <<onTypingCalls, toHost, toPeer>>
     ELSE /\ Len(onTypingCalls[p]) + 2 <= MaxTyping
          /\ LET out == broadcastData(p, typingData(p, TRUE), NoExclude)
             IN /\ onTypingCalls' = [onTypingCalls EXCEPT ![p] = Append(@, TRUE)]
                /\ SendOut(p, out)
                /\ last' = Event("handleInput", p, NoLink, typingData(p, TRUE), out)
  /\ typingTimeoutRef' = [typingTimeoutRef EXCEPT ![p] = TRUE]
  /\ InFlightBounded'
  /\ UNCHANGED <<procVars, connA, connB, rejected, timerVars, budgetVars,
                 pendingReplies>>

\* the timeout that handleInput set fires after the quiet period; nothing clears
\* it when Chat unmounts
typingTimeout(p) ==
  /\ typingTimeoutRef[p]
  /\ typingTimeoutRef' = [typingTimeoutRef EXCEPT ![p] = FALSE]
  /\ onTypingCalls' = [onTypingCalls EXCEPT ![p] = Append(@, FALSE)]
  /\ LET out == broadcastData(p, typingData(p, FALSE), NoExclude)
     IN /\ SendOut(p, out)
        /\ last' = Event("typingTimeout", p, NoLink, typingData(p, FALSE), out)
  /\ InFlightBounded'
  /\ UNCHANGED <<procVars, connA, connB, rejected, timerVars, budgetVars,
                 pendingReplies>>

\* reaction emojis the interface offers (one of REACTION_EMOJIS)
Emojis == {"+1"}

HasReacted(msg, me, emoji) ==
  \E k \in 1..Len(msg.reactions) : SameReaction(msg.reactions[k], me, emoji)

\* handleReaction: the setMessages updater
toggleReaction(prev, messageId, emoji, me, senderName) ==
  [i \in 1..Len(prev) |->
     IF prev[i].id = messageId
     THEN [prev[i] EXCEPT !.reactions =
             IF HasReacted(prev[i], me, emoji)
             THEN SelectSeq(@, LAMBDA r : ~SameReaction(r, me, emoji))
             ELSE Append(@, [emoji |-> emoji, senderId |-> me, senderName |-> senderName])]
     ELSE prev[i]]

\* handleReaction: the value of `action` when broadcastData reads it.  The updater
\* assigns it; React runs an updater inside the setMessages call only when the
\* component has no update pending, and at the next render otherwise
\* (updaterRan says which).  Left alone, `action` is 'add'.
reactionAction(prev, messageId, emoji, me, updaterRan) ==
  IF updaterRan /\ \E i \in 1..Len(prev) :
                     prev[i].id = messageId /\ HasReacted(prev[i], me, emoji)
  THEN "remove" ELSE "add"

reactionData(p, messageId, emoji, updaterRan) ==
  [type |-> "REACTION",
   payload |-> [messageId |-> messageId, emoji |-> emoji, senderId |-> peerId[p],
                senderName |-> IF peerId[p] \in Ids(participants[p])
                               THEN Find(participants[p], peerId[p]).name ELSE "User",
                action |-> reactionAction(messages[p], messageId, emoji, peerId[p],
                                          updaterRan)]]

\* the user of p toggles a reaction on a message of the log shown
handleReaction(p, messageId, emoji) ==
  /\ Mounted(p)
  /\ kickReason[p] = "null"
  /\ \E i \in 1..Len(messages[p]) : messages[p][i].id = messageId
  /\ \E updaterRan \in BOOLEAN :
       LET data == reactionData(p, messageId, emoji, updaterRan)
           out == broadcastData(p, data, NoExclude)
       IN /\ messages' = [messages EXCEPT
                            ![p] = toggleReaction(@, messageId, emoji, peerId[p],
                                                  data.payload.senderName)]
          /\ SendOut(p, out)
          /\ last' = Event("handleReaction", p, NoLink, data, out)
  /\ InFlightBounded'
  /\ UNCHANGED <<peerInstance, peerId, isHost, kickReason, participants, typingUsers,
                 connectionsRef, bannedPeers, connA, connB, rejected, timerVars,
                 budgetVars>>
  /\ UNCHANGED chatVars

\* the input box of p reports typing or its end
handleTyping(p, isTyping) ==
  /\ Mounted(p)
  /\ kickReason[p] = "null"
  /\ LET data == [type |-> "TYPING", payload |-> [userId |-> peerId[p], isTyping |-> isTyping]]
         out == broadcastData(p, data, NoExclude)
     IN /\ SendOut(p, out)
        /\ last' = Event("handleTyping", p, NoLink, data, out)
  /\ InFlightBounded'
  /\ UNCHANGED <<procVars, connA, connB, rejected, timerVars, budgetVars>>
  /\ UNCHANGED chatVars

\* ids of the chat messages sent so far
SentMessageIds == UNION {{<<q, n>> : n \in 1..nextUuid[q]} : q \in Procs}

getMyRole(p) ==
  IF isHost[p] THEN "HOST"
  ELSE IF peerId[p] \in Ids(participants[p])
       THEN Find(participants[p], peerId[p]).role
       ELSE "GUEST"

\* the menu entries the participant list shows for the list entry q
MenuOffers(p, q, action) ==
  LET myRole == getMyRole(p)
      canManage == myRole = "HOST" \/ (myRole = "MANAGER" /\ q.role = "GUEST")
  IN /\ q.id # peerId[p]
     /\ canManage
     /\ CASE action = "PROMOTE" -> myRole = "HOST" /\ q.role = "GUEST"
          [] action = "DEMOTE" -> myRole = "HOST" /\ q.role = "MANAGER"
          [] OTHER -> TRUE

\* mutant of triggerAction: a Manager takes the target of a KICK or BAN out of its
\* own list at once
triggerActionOptimistic(p, action, targetId) ==
  /\ Mounted(p)
  /\ kickReason[p] = "null"
  /\ adminCount < MaxAdmin
  /\ \E i \in 1..Len(participants[p]) :
        participants[p][i].id = targetId /\ MenuOffers(p, participants[p][i], action)
  /\ adminCount' = adminCount + 1
  /\ LET data == [type |-> "ADMIN_REQUEST",
                  payload |-> [action |-> action, targetId |-> targetId]]
         r == IF isHost[p] THEN executeAdminAction(p, action, targetId)
              ELSE IF hostPeerId \in KeySet(connectionsRef[p])
                      /\ ConnOpen(p, Lookup(connectionsRef[p], hostPeerId))
                   THEN [Keep(p) EXCEPT
                           !.parts = IF action \in {"KICK", "BAN"}
                                     THEN removeParticipantList(@, targetId) ELSE @,
                           !.out = <<<<Lookup(connectionsRef[p], hostPeerId), data>>>>]
                   ELSE Keep(p)
     IN /\ Apply(p, r)
        /\ StartTimers(r)
        /\ SendOut(p, r.out)
        /\ last' = Event("triggerAction", p, NoLink, data, r.out)
  /\ InFlightBounded'
  /\ UNCHANGED <<peerInstance, peerId, isHost, kickReason, connectionsRef,
                 connA, connB, rejected, nextUuid, rawSent>>
  /\ UNCHANGED chatVars

triggerAction(p, action, targetId) ==
  /\ Mounted(p)
  /\ kickReason[p] = "null"
  /\ adminCount < MaxAdmin
  /\ \E i \in 1..Len(participants[p]) :
        participants[p][i].id = targetId /\ MenuOffers(p, participants[p][i], action)
  /\ adminCount' = adminCount + 1
  /\ LET data == [type |-> "ADMIN_REQUEST",
                  payload |-> [action |-> action, targetId |-> targetId]]
         r == IF isHost[p] THEN executeAdminAction(p, action, targetId)
              ELSE IF hostPeerId \in KeySet(connectionsRef[p])
                      /\ ConnOpen(p, Lookup(connectionsRef[p], hostPeerId))
                   THEN [Keep(p) EXCEPT
                           !.out = <<<<Lookup(connectionsRef[p], hostPeerId), data>>>>]
                   ELSE Keep(p)
     IN /\ Apply(p, r)
        /\ StartTimers(r)
        /\ SendOut(p, r.out)
        /\ last' = Event("triggerAction", p, NoLink, data, r.out)
  /\ InFlightBounded'
  /\ UNCHANGED <<peerInstance, peerId, isHost, kickReason, connectionsRef,
                 connA, connB, rejected, nextUuid, rawSent>>
  /\ UNCHANGED chatVars

\* the component unmounts: the effect's cleanup
Unmount(p) ==
  /\ Mounted(p)
  /\ CleanupProc(p)
  /\ CleanupNet(p)
  /\ pendingReplies' = [pendingReplies EXCEPT ![p] = <<>>]
  /\ UNCHANGED <<typingTimeoutRef, onTypingCalls>>
  /\ last' = Event("unmount", p, NoLink, NoMsg, <<>>)
  /\ UNCHANGED <<peerId, isHost, kickReason, timerVars, budgetVars>>

Next ==
  \/ HostPeerOpen
  \/ \E p \in Procs, t \in ErrorTypes : HostPeerError(p, t)
  \/ \E g \in Guests : GuestPeerOpen(g)
  \/ \E l \in Links : HostConnection(l)
  \/ \E l \in DirectLinks : GuestConnection(l)
  \/ \E p \in Procs, l \in AllLinks : LinkOpen(p, l)
  \/ \E p \in Procs, l \in Links : Data(p, l)
  \/ \E l \in AllLinks, m \in RawMsgs : RogueData(l, m)
  \/ \E l \in AllLinks : RogueClose(l)
  \/ \E p \in Procs, l \in AllLinks : LinkClosed(p, l)
  \/ \E l \in Links : CloseTimer(l)
  \/ DeferredBroadcast
  \/ \E p \in Procs : sendMessage(p, "hi")
  \/ \E p \in Procs : handleInput(p)
  \/ \E p \in Procs : typingTimeout(p)
  \/ \E p \in Procs, t \in Texts, w \in BOOLEAN : handleSend(p, t, w)
  \/ \E p \in Procs, r \in AssistantResults : assistantSettled(p, r)
  \/ \E p \in Procs, i \in SentMessageIds, e \in Emojis : handleReaction(p, i, e)
  \/ \E p \in Procs, t \in BOOLEAN : handleTyping(p, t)
  \/ \E p \in Procs, a \in AdminActions, t \in Identities : triggerAction(p, a, t)
  \/ \E p \in Procs : Unmount(p)

Spec == Init /\ [][Next]_vars

(* -------------------------------------------------------------- scenarios *)
(* Spec with the environment restricted, so that the reachable states can   *)
(* be exhausted.                                                            *)

\* Moderation: the Host, one Guest process and one link of the foreign peer;
\* nobody sends chat messages.
ModerationGuests == {"abcd-1"}
ModerationProcs == {hostPeerId} \cup ModerationGuests
ModerationLinks == {l \in Links : Initiator(l) \in ModerationGuests \/ l = <<Rogue, 1>>}

InitModeration == InitWith(ModerationGuests)

NextModeration ==
  \/ HostPeerOpen
  \/ \E g \in ModerationGuests : GuestPeerOpen(g)
  \/ \E l \in ModerationLinks : HostConnection(l)
  \/ \E p \in ModerationProcs, l \in ModerationLinks : LinkOpen(p, l)
  \/ \E p \in ModerationProcs, l \in ModerationLinks : Data(p, l)
  \/ \E l \in ModerationLinks, m \in RawModeration : RogueData(l, m)
  \/ \E l \in ModerationLinks : RogueClose(l)
  \/ \E p \in ModerationProcs, l \in ModerationLinks : LinkClosed(p, l)
  \/ \E l \in ModerationLinks : CloseTimer(l)
  \/ DeferredBroadcast
  \/ \E p \in ModerationProcs, a \in AdminActions, t \in Identities :
        triggerAction(p, a, t)

SpecModeration == InitModeration /\ [][NextModeration]_vars

\* Links: the Host, one Guest process and the foreign peer with all its links
\* (several links of one identity, reconnection after a ban); no raw messages.
LinksGuests == {"abcd-1"}

InitLinks == InitWith(LinksGuests)

NextLinks ==
  \/ HostPeerOpen
  \/ \E g \in LinksGuests : GuestPeerOpen(g)
  \/ \E l \in Links : HostConnection(l)
  \/ \E p \in Procs, l \in Links : LinkOpen(p, l)
  \/ \E p \in Procs, l \in Links : Data(p, l)
  \/ \E l \in Links : RogueClose(l)
  \/ \E p \in Procs, l \in Links : LinkClosed(p, l)
  \/ \E l \in Links : CloseTimer(l)
  \/ DeferredBroadcast
  \/ \E a \in AdminActions, t \in Identities : triggerAction(hostPeerId, a, t)
  \/ Unmount(hostPeerId)

SpecLinks == InitLinks /\ [][NextLinks]_vars

\* Chat: the Host, one Guest process and one link of the foreign peer, which
\* replays and forges chat traffic; no moderation, nobody leaves.
ChatGuests == {"abcd-1"}
ChatProcs == {hostPeerId} \cup ChatGuests
ChatLinks == {l \in Links : Initiator(l) \in ChatGuests \/ l = <<Rogue, 1>>}

InitChat == InitWith(ChatGuests)

NextChat ==
  \/ HostPeerOpen
  \/ \E g \in ChatGuests : GuestPeerOpen(g)
  \/ \E l \in ChatLinks : HostConnection(l)
  \/ \E p \in ChatProcs, l \in ChatLinks : LinkOpen(p, l)
  \/ \E p \in ChatProcs, l \in ChatLinks : Data(p, l)
  \/ \E l \in ChatLinks, m \in RawChat : RogueData(l, m)
  \/ \E p \in ChatProcs : nextUuid[p] < OneSend /\ sendMessage(p, "hi")

SpecChat == InitChat /\ [][NextChat]_vars

\* Election: the Host and both Guest processes, one of which tries the Host
\* identity first; no foreign peer, no chat, no moderation.
ElectionLinks == {l \in Links : Initiator(l) \in Guests}

InitElection == InitWith(Guests)

NextElection ==
  \/ HostPeerOpen
  \/ \E p \in Procs, t \in ErrorTypes : HostPeerError(p, t)
  \/ \E g \in Guests : GuestPeerOpen(g)
  \/ \E l \in ElectionLinks : HostConnection(l)
  \/ \E p \in Procs, l \in ElectionLinks : LinkOpen(p, l)
  \/ \E p \in Procs, l \in ElectionLinks : Data(p, l)
  \/ \E p \in Procs, l \in ElectionLinks : LinkClosed(p, l)
  \/ \E p \in Procs : Unmount(p)

SpecElection == InitElection /\ [][NextElection]_vars

\* Reactions: the Host sends a message; the Host and one Guest process toggle
\* reactions on it.
ReactGuests == {"abcd-1"}
ReactProcs == {hostPeerId} \cup ReactGuests
ReactLinks == {l \in Links : Initiator(l) \in ReactGuests}

InitReact == InitWith(ReactGuests)

NextReact ==
  \/ HostPeerOpen
  \/ \E g \in ReactGuests : GuestPeerOpen(g)
  \/ \E l \in ReactLinks : HostConnection(l)
  \/ \E p \in ReactProcs, l \in ReactLinks : LinkOpen(p, l)
  \/ \E p \in ReactProcs, l \in ReactLinks : Data(p, l)
  \/ nextUuid[hostPeerId] < OneSend /\ sendMessage(hostPeerId, "hi")
  \/ \E p \in ReactProcs, i \in SentMessageIds, e \in Emojis : handleReaction(p, i, e)

SpecReact == InitReact /\ [][NextReact]_vars

\* Relay: the Host, one Guest process that sends a chat message, reactions and
\* typing notices, and the foreign peer with all its links, which only listens.
RelayGuests == {"abcd-1"}
RelayProcs == {hostPeerId} \cup RelayGuests
RelayLinks == {l \in Links : Initiator(l) \in RelayGuests \/ Initiator(l) = Rogue}

InitRelay == InitWith(RelayGuests)

NextRelay ==
  \/ HostPeerOpen
  \/ \E g \in RelayGuests : GuestPeerOpen(g)
  \/ \E l \in RelayLinks : HostConnection(l)
  \/ \E p \in RelayProcs, l \in RelayLinks : LinkOpen(p, l)
  \/ \E p \in RelayProcs, l \in RelayLinks : Data(p, l)
  \/ \E l \in RelayLinks : RogueClose(l)
  \/ \E p \in RelayProcs, l \in RelayLinks : LinkClosed(p, l)
  \/ \E g \in RelayGuests : nextUuid[g] < OneSend /\ sendMessage(g, "hi")
  \/ \E g \in RelayGuests : handleTyping(g, TRUE)
  \/ \E g \in RelayGuests, i \in SentMessageIds, e \in Emojis : handleReaction(g, i, e)

SpecRelay == InitRelay /\ [][NextRelay]_vars

\* Order: the Host and both Guest processes; one Guest sends its messages and
\* typing notices, which reach the other through the Host.
OrderSenders == {"abcd-1"}
OrderLinks == {l \in Links : Initiator(l) \in Guests}

InitOrder == InitWith(Guests)

NextOrder ==
  \/ HostPeerOpen
  \/ \E p \in Procs : HostPeerError(p, "unavailable-id")
  \/ \E g \in Guests : GuestPeerOpen(g)
  \/ \E l \in OrderLinks : HostConnection(l)
  \/ \E p \in Procs, l \in OrderLinks : LinkOpen(p, l)
  \/ \E p \in Procs, l \in OrderLinks : Data(p, l)
  \/ \E p \in OrderSenders : sendMessage(p, "hi")
  \/ \E p \in OrderSenders : handleTyping(p, TRUE)

SpecOrder == InitOrder /\ [][NextOrder]_vars
\* Race: the Host sends a message, and the two Guest processes react to it, each
\* once (a user reacts where the message does not show a reaction of theirs).
RaceLinks == {l \in Links : Initiator(l) \in Guests}

InitRace == InitWith(Guests)

NextRace ==
  \/ HostPeerOpen
  \/ \E p \in Procs : HostPeerError(p, "unavailable-id")
  \/ \E g \in Guests : GuestPeerOpen(g)
  \/ \E l \in RaceLinks : HostConnection(l)
  \/ \E p \in Procs, l \in RaceLinks : LinkOpen(p, l)
  \/ \E p \in Procs, l \in RaceLinks : Data(p, l)
  \/ nextUuid[hostPeerId] < OneSend /\ sendMessage(hostPeerId, "hi")
  \/ \E g \in Guests, i \in SentMessageIds, e \in Emojis :
        /\ \A k \in 1..Len(messages[g]) :
              messages[g][k].id = i => ~HasReacted(messages[g][k], peerId[g], e)
        /\ handleReaction(g, i, e)

SpecRace == InitRace /\ [][NextRace]_vars

\* Typing: the Host and both Guest processes; the Guests report typing and its
\* end, and one of them leaves the room.
TypingLinks == {l \in Links : Initiator(l) \in Guests}
TypingLeavers == {"abcd-1"}

InitTyping == InitWith(Guests)

NextTyping ==
  \/ HostPeerOpen
  \/ \E p \in Procs : HostPeerError(p, "unavailable-id")
  \/ \E g \in Guests : GuestPeerOpen(g)
  \/ \E l \in TypingLinks : HostConnection(l)
  \/ \E p \in Procs, l \in TypingLinks : LinkOpen(p, l)
  \/ \E p \in Procs, l \in TypingLinks : Data(p, l)
  \/ \E p \in Procs, l \in TypingLinks : LinkClosed(p, l)
  \/ \E g \in Guests, t \in BOOLEAN : handleTyping(g, t)
  \/ \E g \in TypingLeavers : Unmount(g)

SpecTyping == InitTyping /\ [][NextTyping]_vars

\* Assistant: the Host and one Guest process, whose user sends texts, some of
\* which call the assistant; the Host's user sends one text.
AssistantGuests == {"abcd-1"}
AssistantProcs == {hostPeerId} \cup AssistantGuests
AssistantLinks == {l \in Links : Initiator(l) \in AssistantGuests}

InitAssistant == InitWith(AssistantGuests)

NextAssistant ==
  \/ HostPeerOpen
  \/ \E g \in AssistantGuests : GuestPeerOpen(g)
  \/ \E l \in AssistantLinks : HostConnection(l)
  \/ \E p \in AssistantProcs, l \in AssistantLinks : LinkOpen(p, l)
  \/ \E p \in AssistantProcs, l \in AssistantLinks : Data(p, l)
  \/ nextUuid[hostPeerId] < OneSend /\ sendMessage(hostPeerId, "hi")
  \/ \E g \in AssistantGuests, t \in Texts, w \in BOOLEAN : handleSend(g, t, w)
  \/ \E g \in AssistantGuests, r \in AssistantResults : assistantSettled(g, r)

SpecAssistant == InitAssistant /\ [][NextAssistant]_vars

\* Banned: the Host, one Guest process and the foreign peer with all its links;
\* the Host's user bans the foreign peer, which reconnects and keeps sending.
BannedGuests == {"abcd-1"}
BannedProcs == {hostPeerId} \cup BannedGuests
BannedLinks == {l \in Links : Initiator(l) \in BannedGuests \/ Initiator(l) = Rogue}

InitBanned == InitWith(BannedGuests)

NextBanned ==
  \/ HostPeerOpen
  \/ \E g \in BannedGuests : GuestPeerOpen(g)
  \/ \E l \in BannedLinks : HostConnection(l)
  \/ \E p \in BannedProcs, l \in BannedLinks : LinkOpen(p, l)
  \/ \E p \in BannedProcs, l \in BannedLinks : Data(p, l)
  \/ \E l \in BannedLinks, m \in RawMsgs : RogueData(l, m)
  \/ \E l \in BannedLinks : CloseTimer(l)
  \/ triggerAction(hostPeerId, "BAN", Rogue)

SpecBanned == InitBanned /\ [][NextBanned]_vars

\* Admission: the Host, one Guest process that listens, and the foreign peer with
\* all its links, which sends chat traffic and closes links.
AdmissionGuests == {"abcd-1"}
AdmissionProcs == {hostPeerId} \cup AdmissionGuests
AdmissionLinks == {l \in Links : Initiator(l) \in AdmissionGuests \/ Initiator(l) = Rogue}

InitAdmission == InitWith(AdmissionGuests)

NextAdmission ==
  \/ HostPeerOpen
  \/ \E g \in AdmissionGuests : GuestPeerOpen(g)
  \/ \E l \in AdmissionLinks : HostConnection(l)
  \/ \E p \in AdmissionProcs, l \in AdmissionLinks : LinkOpen(p, l)
  \/ \E p \in AdmissionProcs, l \in AdmissionLinks : Data(p, l)
  \/ \E l \in AdmissionLinks, m \in RawChat : RogueData(l, m)
  \/ \E l \in AdmissionLinks : RogueClose(l)
  \/ \E p \in AdmissionProcs, l \in AdmissionLinks : LinkClosed(p, l)

SpecAdmission == InitAdmission /\ [][NextAdmission]_vars

\* Direct: the Host, one Guest process that chats, and the foreign peer, which
\* joins the room, reads the Guest's id in the participant list it is sent, and
\* opens a data connection to the Guest.
DirectProcs == {hostPeerId, DirectGuest}
DirectHostLinks == {<<DirectGuest, 1>>, <<Rogue, 1>>}

InitDirect == InitWith({DirectGuest})

NextDirect ==
  \/ HostPeerOpen
  \/ GuestPeerOpen(DirectGuest)
  \/ \E l \in DirectHostLinks : HostConnection(l)
  \/ \E l \in DirectLinks :
        /\ connB[<<Rogue, 1>>] = "open"
        /\ DirectGuest \in Ids(participants[hostPeerId])
        /\ GuestConnection(l)
  \/ \E p \in DirectProcs, l \in DirectHostLinks \cup DirectLinks : LinkOpen(p, l)
  \/ \E p \in DirectProcs, l \in DirectHostLinks : Data(p, l)
  \/ \E l \in DirectLinks, m \in RawChat : RogueData(l, m)
  \/ \E l \in DirectLinks : RogueClose(l)
  \/ \E l \in DirectLinks : LinkClosed(DirectGuest, l)
  \/ \E p \in DirectProcs : nextUuid[p] < OneSend /\ sendMessage(p, "hi")

SpecDirect == InitDirect /\ [][NextDirect]_vars

\* Teardown: the Host and one Guest process whose user types and calls the
\* assistant; the Host's user promotes and kicks the Guest, and the Host's room
\* is left.
TeardownGuests == {"abcd-1"}
TeardownProcs == {hostPeerId} \cup TeardownGuests
TeardownLinks == {l \in Links : Initiator(l) \in TeardownGuests}

InitTeardown == InitWith(TeardownGuests)

NextTeardown ==
  \/ HostPeerOpen
  \/ \E g \in TeardownGuests : GuestPeerOpen(g)
  \/ \E l \in TeardownLinks : HostConnection(l)
  \/ \E p \in TeardownProcs, l \in TeardownLinks : LinkOpen(p, l)
  \/ \E p \in TeardownProcs, l \in TeardownLinks : Data(p, l)
  \/ \E p \in TeardownProcs, l \in TeardownLinks : LinkClosed(p, l)
  \/ \E l \in TeardownLinks : CloseTimer(l)
  \/ DeferredBroadcast
  \/ \E g \in TeardownGuests : handleInput(g)
  \/ \E g \in TeardownGuests : typingTimeout(g)
  \/ \E g \in TeardownGuests, w \in BOOLEAN : handleSend(g, "@AI hi", w)
  \/ \E g \in TeardownGuests : assistantSettled(g, "text")
  \/ \E g \in TeardownGuests, a \in {"PROMOTE", "KICK"} :
        triggerAction(hostPeerId, a, g)
  \/ Unmount(hostPeerId)

SpecTeardown == InitTeardown /\ [][NextTeardown]_vars

\* Input: the Host and one Guest process, whose user types and sends; the Host's
\* user kicks the Guest.  The timer of the quiet period fires, links that can
\* open do open, and the messages in flight are delivered (weak fairness).
InputGuests == {"abcd-1"}
InputProcs == {hostPeerId} \cup InputGuests
InputLinks == {l \in Links : Initiator(l) \in InputGuests}

InitInput == InitWith(InputGuests)

NextInput ==
  \/ HostPeerOpen
  \/ \E g \in InputGuests : GuestPeerOpen(g)
  \/ \E l \in InputLinks : HostConnection(l)
  \/ \E p \in InputProcs, l \in InputLinks : LinkOpen(p, l)
  \/ \E p \in InputProcs, l \in InputLinks : Data(p, l)
  \/ \E l \in InputLinks : CloseTimer(l)
  \/ \E g \in InputGuests : handleInput(g)
  \/ \E g \in InputGuests : typingTimeout(g)
  \/ \E g \in InputGuests, w \in BOOLEAN :
        nextUuid[g] < OneSend /\ handleSend(g, "hi", w)
  \/ \E g \in InputGuests : triggerAction(hostPeerId, "KICK", g)

SpecInput ==
  /\ InitInput
  /\ [][NextInput]_vars
  /\ \A g \in InputGuests : WF_vars(typingTimeout(g))
  /\ \A p \in InputProcs, l \in InputLinks :
        WF_vars(LinkOpen(p, l)) /\ WF_vars(Data(p, l))

\* Sync: the Host, one Guest process and the foreign peer with all its links; the
\* Host's user promotes and demotes the Guest.  The Guest's peer opens and its
\* connection reaches the Host, links that can open do open, closes are noticed,
\* deferred broadcasts run and messages in flight are delivered (weak fairness).
SyncGuests == {"abcd-1"}
SyncProcs == {hostPeerId} \cup SyncGuests
SyncLinks == {l \in Links : Initiator(l) \in SyncGuests \/ Initiator(l) = Rogue}

InitSync == InitWith(SyncGuests)

NextSync ==
  \/ HostPeerOpen
  \/ \E g \in SyncGuests : GuestPeerOpen(g)
  \/ \E l \in SyncLinks : HostConnection(l)
  \/ \E p \in SyncProcs, l \in SyncLinks : LinkOpen(p, l)
  \/ \E p \in SyncProcs, l \in SyncLinks : Data(p, l)
  \/ \E l \in SyncLinks : RogueClose(l)
  \/ \E p \in SyncProcs, l \in SyncLinks : LinkClosed(p, l)
  \/ DeferredBroadcast
  \/ \E g \in SyncGuests, a \in {"PROMOTE", "DEMOTE"} :
        triggerAction(hostPeerId, a, g)

SpecSync ==
  /\ InitSync
  /\ [][NextSync]_vars
  /\ WF_vars(DeferredBroadcast)
  /\ \A g \in SyncGuests : WF_vars(GuestPeerOpen(g)) /\ WF_vars(HostConnection(<<g, 1>>))
  /\ \A p \in SyncProcs, l \in SyncLinks :
        WF_vars(LinkOpen(p, l)) /\ WF_vars(Data(p, l)) /\ WF_vars(LinkClosed(p, l))

(* ================================================================ claims *)
H == hostPeerId

\* the Host's peer is open and has not been torn down
HostActive == peerInstance[H] = hostPeerId /\ peerId[H] # ""

RoleIn(list, id) == IF id \in Ids(list) THEN Find(list, id).role ELSE "absent"

KickedIn(sent) == \E i \in 1..Len(sent) : sent[i][2].type = "KICKED"

\* the step is the Host's data handler taking an ADMIN_REQUEST
HostTakesAdminRequest ==
  /\ last'.op = "data"
  /\ last'.proc = H
  /\ last'.msg.type = "ADMIN_REQUEST"
  /\ peerInstance[H] = hostPeerId

\* the last handler was the Host's data handler taking an ADMIN_REQUEST
HostTookAdminRequest ==
  /\ last.op = "data"
  /\ last.proc = H
  /\ last.msg.type = "ADMIN_REQUEST"

(* ---- C1 ---- *)
LogIdsUnique ==
  \A p \in Procs : \A i, j \in 1..Len(messages[p]) :
     messages[p][i].id = messages[p][j].id => i = j

DuplicateChatLeavesLog ==
  \A p \in Procs :
     (/\ last'.op = "data"
      /\ last'.proc = p
      /\ last'.msg.type = "CHAT"
      /\ \E i \in 1..Len(messages[p]) : messages[p][i].id = last'.msg.payload.id)
     => messages'[p] = messages[p]

\* C1: in every process the message log holds at most one entry per message id,
\* and the delivery of a CHAT whose id is already in the log leaves the log as it
\* was, the entry's text and reactions included.
C1_LogDeduplicatedById == [](LogIdsUnique) /\ [][DuplicateChatLeavesLog]_vars

\* a CHAT with another text was delivered for an id already in the log, whose
\* entry has a reaction; the entry is still there
C1_Witness ==
  /\ last.op = "data"
  /\ last.msg.type = "CHAT"
  /\ \E i \in 1..Len(messages[last.proc]) :
        /\ messages[last.proc][i].id = last.msg.payload.id
        /\ messages[last.proc][i].text # last.msg.payload.text
        /\ messages[last.proc][i].reactions # <<>>

(* ---- C2 ---- *)
RequesterUnauthorized ==
  RoleIn(participants[H], Initiator(last'.link)) \in {"absent", "GUEST"}

\* C2: an ADMIN_REQUEST whose requester is absent from the Host's directory or has
\* role GUEST there is dropped: directory, ban list and connection registry stay
\* as they are and no KICKED is sent.
C2_UnauthorizedRequestDropped ==
  [][(HostTakesAdminRequest /\ RequesterUnauthorized)
       => /\ UNCHANGED <<participants, bannedPeers, connectionsRef>>
          /\ ~KickedIn(last'.sent)]_vars

\* a GUEST asked the Host to BAN another GUEST whose link is open
C2_Witness ==
  /\ HostTookAdminRequest
  /\ last.msg.payload.action = "BAN"
  /\ RoleIn(participants[H], Initiator(last.link)) = "GUEST"
  /\ last.msg.payload.targetId # Initiator(last.link)
  /\ RoleIn(participants[H], last.msg.payload.targetId) = "GUEST"
  /\ \E l \in Links : Initiator(l) = last.msg.payload.targetId /\ connB[l] = "open"

(* ---- C3 ---- *)
ManagerOnManager ==
  /\ RoleIn(participants[H], Initiator(last'.link)) = "MANAGER"
  /\ RoleIn(participants[H], last'.msg.payload.targetId) = "MANAGER"

\* C3: an ADMIN_REQUEST of a MANAGER against a MANAGER changes nothing on the
\* Host: roles, links, ban list, timers stay and no message is sent.
C3_ManagerCannotActOnManager ==
  [][(HostTakesAdminRequest /\ ManagerOnManager)
       => /\ UNCHANGED <<participants, bannedPeers, connectionsRef, messages,
                         typingUsers, peerInstance, connB, closeTimers, syncTimers>>
          /\ last'.sent = <<>>]_vars

\* a MANAGER asked the Host to BAN another MANAGER whose link is open
C3_Witness ==
  /\ HostTookAdminRequest
  /\ last.msg.payload.action = "BAN"
  /\ RoleIn(participants[H], Initiator(last.link)) = "MANAGER"
  /\ last.msg.payload.targetId # Initiator(last.link)
  /\ RoleIn(participants[H], last.msg.payload.targetId) = "MANAGER"
  /\ \E l \in Links : Initiator(l) = last.msg.payload.targetId /\ connB[l] = "open"

(* ---- C4 ---- *)
TargetIsHost == RoleIn(participants[H], last'.msg.payload.targetId) = "HOST"

\* C4: no ADMIN_REQUEST whose target has role HOST is executed: the directory
\* (the Host's entry with it) and the ban list stay as they are, no KICKED is
\* sent, and the Host identity is never in the ban list.
C4_HostNeverTargeted ==
  /\ [](hostPeerId \notin bannedPeers[H])
  /\ [][(HostTakesAdminRequest /\ TargetIsHost)
          => /\ UNCHANGED <<participants, bannedPeers>>
             /\ ~KickedIn(last'.sent)]_vars

\* a MANAGER asked the Host to BAN the Host
C4_Witness ==
  /\ HostTookAdminRequest
  /\ last.msg.payload.action = "BAN"
  /\ last.msg.payload.targetId = hostPeerId
  /\ RoleIn(participants[H], Initiator(last.link)) = "MANAGER"
  /\ RoleIn(participants[H], hostPeerId) = "HOST"

(* ---- C5 ---- *)
AuthorizedKick ==
  /\ last'.msg.payload.action = "KICK"
  /\ RoleIn(participants[H], Initiator(last'.link)) = "MANAGER"
  /\ RoleIn(participants[H], last'.msg.payload.targetId) = "GUEST"
  /\ last'.msg.payload.targetId \in KeySet(connectionsRef[H])
  /\ connB[Lookup(connectionsRef[H], last'.msg.payload.targetId)] = "open"

\* C5: a KICK requested by a promoted MANAGER against an admitted GUEST passes the
\* checks and is executed: KICKED is sent on the target's link and the close of
\* that link is scheduled.
C5_ManagerKickExecuted ==
  [][(HostTakesAdminRequest /\ AuthorizedKick)
       => LET conn == Lookup(connectionsRef[H], last'.msg.payload.targetId)
          IN /\ \E i \in 1..Len(last'.sent) :
                   last'.sent[i][1] = conn /\ last'.sent[i][2].type = "KICKED"
             /\ conn \in closeTimers']_vars
(* ---- C6 ---- *)
SyncPayloads(sent) ==
  {sent[i][2].payload : i \in {j \in 1..Len(sent) : sent[j][2].type = "SYNC_PARTICIPANTS"}}

GuestTookSync ==
  /\ last.op = "data"
  /\ last.proc \in Guests
  /\ last.msg.type = "SYNC_PARTICIPANTS"

\* C6: every SYNC_PARTICIPANTS the Host sends carries the list the Host holds on
\* sending it, and a Guest that has processed a SYNC_PARTICIPANTS holds exactly
\* the list the message carries, whatever it held before.
C6_GuestListIsHostList ==
  /\ (last.proc = H /\ HostActive)
       => \A list \in SyncPayloads(last.sent) : list = participants[H]
  /\ GuestTookSync => participants[last.proc] = last.msg.payload

\* a Guest that held a longer list has processed a list of the Host and itself,
\* in which it is a MANAGER
C6_Witness ==
  /\ GuestTookSync
  /\ Len(last.msg.payload) = 2
  /\ RoleIn(last.msg.payload, last.proc) = "MANAGER"
  /\ participants[last.proc] = last.msg.payload
  /\ \E l \in Links : Initiator(l) = Rogue /\ connB[l] = "closed"

(* ---- C7 ---- *)
\* C7: the directory of an active Host has exactly one entry of role HOST, and
\* its id is the Host identity of the room.
C7_ExactlyOneHost ==
  HostActive =>
    /\ Cardinality({i \in 1..Len(participants[H]) : participants[H][i].role = "HOST"}) = 1
    /\ \A i \in 1..Len(participants[H]) :
          participants[H][i].role = "HOST" => participants[H][i].id = hostPeerId

(* ---- C8 ---- *)
\* the links the Host has admitted and that are open at its end
OpenAdmitted == {l \in Links : connB[l] = "open" /\ ~rejected[l]}

\* C8: the ids of the Host's directory include the Host and the identity of every
\* open link, a second link of an identity whose first link is still up included.
C8_DirectoryCoversOpenLinks ==
  HostActive =>
    ({Initiator(l) : l \in OpenAdmitted} \cup {hostPeerId}) \subseteq Ids(participants[H])

(* ---- C9 ---- *)
\* C9: no identity of the Host's ban list has a link that is open at the Host.
C9_NoBannedOpenLink ==
  \A l \in Links : connB[l] = "open" => Initiator(l) \notin bannedPeers[H]

(* ---- C10 ---- *)
\* identities of which the Host has turned a link away for the ban
Rejected == {Initiator(l) : l \in {k \in Links : rejected[k]}}

\* C10: once the Host has turned away a link of a banned identity, that identity
\* is not registered, is not added to the directory and is in no
\* SYNC_PARTICIPANTS the Host sends.
C10_RejectedStaysOut ==
  /\ [](\A id \in Rejected : \A list \in SyncPayloads(last.sent) :
           last.proc = H => id \notin Ids(list))
  /\ [][\A id \in Rejected :
           /\ id \in KeySet(connectionsRef'[H]) => id \in KeySet(connectionsRef[H])
           /\ id \in Ids(participants'[H]) => id \in Ids(participants[H])]_vars
(* ---- C15 ---- *)
AttemptingHost(p) == peerInstance[p] = hostPeerId /\ peerId[p] = ""
AttemptingGuest(p) == peerInstance[p] = NoId
ActiveHost(p) == peerInstance[p] = hostPeerId /\ peerId[p] = hostPeerId
ActiveGuest(p) == peerInstance[p] \in Guests

ElectionStart ==
  \A p \in Procs : Mounted(p) =>
     IF locationState(p) = "false" THEN AttemptingGuest(p) ELSE AttemptingHost(p)

ElectionStates ==
  \A p \in Procs :
     /\ locationState(p) = "false" => peerInstance[p] # hostPeerId
     /\ ~(ActiveHost(p) /\ ActiveGuest(p))
     /\ isHost[p] => peerInstance[p] \in {hostPeerId, NullPeer}
     /\ ActiveHost(p) => isHost[p] /\ RoleIn(participants[p], hostPeerId) = "HOST"
     /\ ActiveGuest(p) => ~isHost[p] /\ peerId[p] = peerInstance[p] /\ peerId[p] # hostPeerId

ElectionSteps ==
  \A p \in Procs :
     /\ (AttemptingHost(p) /\ ~AttemptingHost(p)')
          => \/ ActiveHost(p)' /\ last'.op = "peerOpen"
             \/ AttemptingGuest(p)' /\ last'.op = "peerError"
                                    /\ last'.msg.err = "unavailable-id" /\ HostIdTaken(p)
             \/ ~Mounted(p)' /\ last'.op = "unmount"
     /\ (last'.op = "peerError" /\ last'.proc = p /\ last'.msg.err = "unavailable-id")
          => AttemptingHost(p) /\ AttemptingGuest(p)'
     /\ (AttemptingGuest(p)' /\ ~AttemptingGuest(p)) => AttemptingHost(p)
     /\ (ActiveHost(p)' /\ ~ActiveHost(p)) => AttemptingHost(p)
     /\ (ActiveGuest(p)' /\ ~ActiveGuest(p)) => AttemptingGuest(p)

\* C15: role election.  A process whose route says isHost=false starts in the
\* Guest attempt and never holds a Peer of the Host identity; any other process
\* starts in the Host attempt.  The Host attempt ends in the Host role (isHost,
\* own entry of role HOST) on a successful bind, or in the Guest attempt with a
\* Peer without id when the identity is taken; the Guest role is entered from the
\* Guest attempt only, and no process is Host and Guest at once.
C15_RoleElection == ElectionStart /\ [](ElectionStates) /\ [][ElectionSteps]_vars

\* the process that tried the Host identity first is an active Guest under an
\* identity of its own, next to the active Host
C15_Witness ==
  /\ ActiveHost(H)
  /\ \E p \in Procs : locationState(p) = "absent" /\ ActiveGuest(p) /\ connA[<<p, 1>>] = "open"
  /\ \E p \in Procs : locationState(p) = "false" /\ ActiveGuest(p)

(* ---- C16 ---- *)
\* C16: when the Host bind fails with an error other than unavailable-id, the
\* process leaves the Host attempt for an error state the caller can observe.
C16_BindErrorSurfaced ==
  [][\A p \in Procs :
       (/\ last'.op = "peerError"
        /\ last'.proc = p
        /\ last'.msg.err # "unavailable-id"
        /\ AttemptingHost(p))
       => (~AttemptingHost(p)' \/ kickReason'[p] # "null")]_vars

(* ---- C17 ---- *)
\* the Guest is active and its link to the Host has not opened
GuestWaiting(g) == peerInstance[g] = g /\ connA[<<g, 1>>] = "pending"

SelfOnly(g) == <<[id |-> g, name |-> DefaultName(g), role |-> "GUEST", isHost |-> FALSE]>>

\* C17: on the open of its Peer a Guest enters itself with role GUEST and starts
\* the link to the Host; while that link has not opened the Guest is active, holds
\* no open link, lists itself only and is in no kicked state, and it leaves this
\* state only by the link opening or by the user leaving the room.
C17_GuestWaitsForHost ==
  /\ [](\A g \in Guests : GuestWaiting(g) =>
          /\ participants[g] = SelfOnly(g)
          /\ kickReason[g] = "null"
          /\ \A l \in LinksOf(g) : connA[l] # "open")
  /\ [][\A g \in Guests :
          /\ (last'.op = "peerOpen" /\ last'.proc = g)
               => /\ RoleIn(participants'[g], g) = "GUEST"
                  /\ GuestWaiting(g)'
          /\ (GuestWaiting(g) /\ ~GuestWaiting(g)')
               => \/ connA'[<<g, 1>>] = "open"
                  \/ last'.op = "unmount" /\ last'.proc = g]_vars

\* a Guest waits on a link that cannot open: the Host has left the room
C17_Witness ==
  \E g \in Guests :
     /\ GuestWaiting(g)
     /\ peerInstance[H] = NullPeer
     /\ connB[<<g, 1>>] = "none"
     /\ last.proc # g
(* ---- C14 ---- *)
\* the last handler was a data handler taking a KICKED message
TookKicked ==
  /\ last.op = "data"
  /\ last.msg.type = "KICKED"
  /\ ~(last.proc = H /\ rejected[last.link])

\* C14: a process of either role that has taken a KICKED message is in the kicked
\* state and torn down: its Peer is destroyed, its links are closed, and its
\* connection registry, directory, message log, typing set and ban list are empty.
C14_KickedTearsDown ==
  TookKicked =>
    LET p == last.proc IN
    /\ kickReason[p] # "null"
    /\ peerInstance[p] = NullPeer
    /\ \A l \in LinksOf(p) : LocalEnd(p, l) \notin {"pending", "open"}
    /\ connectionsRef[p] = <<>>
    /\ participants[p] = <<>>
    /\ messages[p] = <<>>
    /\ typingUsers[p] = {}
    /\ bannedPeers[p] = {}

\* the Host has taken a forged KICKED while a Guest, which still lists the room,
\* was connected
C14_Witness ==
  /\ TookKicked
  /\ last.proc = H
  /\ kickReason[H] = "forged"
  /\ \E g \in Guests : connA[<<g, 1>>] = "open" /\ Len(participants[g]) = 3
(* ---- C18 ---- *)
\* the pairs (senderId, emoji) of the reactions a log holds for a message
ReactionPairs(log, messageId) ==
  UNION {{<<log[i].reactions[k].senderId, log[i].reactions[k].emoji>>
            : k \in 1..Len(log[i].reactions)}
           : i \in {j \in 1..Len(log) : log[j].id = messageId}}

\* C18: a local toggle removes the reaction and broadcasts action=remove when the
\* identity had the reaction, and adds it and broadcasts action=add otherwise.
C18_BroadcastActionIsLocalMutation ==
  [][\A p \in Procs :
       (last'.op = "handleReaction" /\ last'.proc = p)
       => LET rp == last'.msg.payload
              pair == <<peerId[p], rp.emoji>>
              had == pair \in ReactionPairs(messages[p], rp.messageId)
              has == pair \in ReactionPairs(messages'[p], rp.messageId)
          IN IF had THEN ~has /\ rp.action = "remove"
                    ELSE has /\ rp.action = "add"]_vars

(* ---- C19 ---- *)
\* the messages in flight towards process q on link l
Inbox(q, l) == IF q = H THEN toHost[l] ELSE toPeer[l]

\* two REACTION messages of one sender for one message and emoji, in flight one
\* behind the other: the results of two successive toggles
TogglePair(q, l) ==
  /\ Len(Inbox(q, l)) >= 2
  /\ Inbox(q, l)[1].type = "REACTION"
  /\ Inbox(q, l)[2].type = "REACTION"
  /\ Inbox(q, l)[1].payload.messageId = Inbox(q, l)[2].payload.messageId
  /\ Inbox(q, l)[1].payload.senderId = Inbox(q, l)[2].payload.senderId
  /\ Inbox(q, l)[1].payload.emoji = Inbox(q, l)[2].payload.emoji

\* C19: two successive toggles of one reaction by one sender leave the reaction
\* set of the message as it was, in the sender's log and in the log of a process
\* that takes the two REACTION messages in order.
C19_DoubleToggleRoundTrip ==
  /\ \A p \in Procs : \A i \in 1..Len(messages[p]) : \A e \in Emojis :
       LET mid == messages[p][i].id
           once == toggleReaction(messages[p], mid, e, peerId[p], "User")
           twice == toggleReaction(once, mid, e, peerId[p], "User")
       IN ReactionPairs(twice, mid) = ReactionPairs(messages[p], mid)
  /\ \A q \in Procs : \A l \in LinksOf(q) :
       (ConnOpen(q, l) /\ TogglePair(q, l))
       => LET mid == Inbox(q, l)[1].payload.messageId
              after == applyReaction(applyReaction(messages[q], Inbox(q, l)[1].payload),
                                     Inbox(q, l)[2].payload)
          IN ReactionPairs(after, mid) = ReactionPairs(messages[q], mid)

(* ---- C20 ---- *)
ReactionsUnique ==
  \A p \in Procs : \A i \in 1..Len(messages[p]) :
     \A k1, k2 \in 1..Len(messages[p][i].reactions) :
        SameReaction(messages[p][i].reactions[k1],
                     messages[p][i].reactions[k2].senderId,
                     messages[p][i].reactions[k2].emoji) => k1 = k2

RepeatedAddLeavesLog ==
  \A p \in Procs :
     (/\ last'.op = "data"
      /\ last'.proc = p
      /\ last'.msg.type = "REACTION"
      /\ last'.msg.payload.action = "add"
      /\ <<last'.msg.payload.senderId, last'.msg.payload.emoji>>
            \in ReactionPairs(messages[p], last'.msg.payload.messageId))
     => messages'[p] = messages[p]

\* C20: in every process the reactions of a message hold no two entries of one
\* (senderId, emoji) pair, and a REACTION with action=add for a pair the message
\* has leaves the log as it was.
C20_ReactionsDeduplicated == [](ReactionsUnique) /\ [][RepeatedAddLeavesLog]_vars

\* a process has taken an 'add' for a pair it already had: nothing more is in
\* flight to it, it has the pair once, and the sender, who toggled twice, has not
C20_Witness ==
  /\ last.op = "data"
  /\ last.msg.type = "REACTION"
  /\ last.msg.payload.action = "add"
  /\ \A l \in LinksOf(last.proc) : Inbox(last.proc, l) = <<>>
  /\ \E i \in 1..Len(messages[last.proc]) :
        /\ messages[last.proc][i].id = last.msg.payload.messageId
        /\ Len(messages[last.proc][i].reactions) = 1
  /\ \E p \in Procs :
        /\ peerId[p] = last.msg.payload.senderId
        /\ \E i \in 1..Len(messages[p]) :
              messages[p][i].id = last.msg.payload.messageId
              /\ messages[p][i].reactions = <<>>
(* ---- C11 ---- *)
Replicable == {"CHAT", "REACTION", "TYPING"}

\* the step is the Host's data handler taking a replicable message
HostTakesReplicable ==
  /\ last'.op = "data"
  /\ last'.proc = H
  /\ last'.msg.type \in Replicable
  /\ peerInstance[H] = hostPeerId
  /\ ~rejected[last'.link]

\* the links of other peers that are open at the Host (links the Host has turned
\* away for a ban are not counted)
OtherOpenLinks(L) ==
  {l \in Links : connB[l] = "open" /\ ~rejected[l] /\ Initiator(l) # Initiator(L)}

\* the message has been applied to the Host's state
AppliedOnHost(m) ==
  CASE m.type = "CHAT" ->
         \E i \in 1..Len(messages'[H]) : messages'[H][i].id = m.payload.id
    [] m.type = "TYPING" ->
         (m.payload.userId \in typingUsers'[H]) = m.payload.isTyping
    [] m.type = "REACTION" ->
         messages'[H] = applyReaction(messages[H], m.payload)
    [] OTHER -> TRUE

\* C11: when the Host takes a CHAT, REACTION or TYPING on link L, it applies it
\* and sends the same message on every other link that is open at that moment,
\* and on no link of L's peer.
C11_HostRelaysToAllOthers ==
  [][HostTakesReplicable
       => /\ AppliedOnHost(last'.msg)
          /\ \A l \in OtherOpenLinks(last'.link) :
                \E i \in 1..Len(last'.sent) : last'.sent[i] = <<l, last'.msg>>
          /\ \A i \in 1..Len(last'.sent) :
                /\ last'.sent[i][2] = last'.msg
                /\ Initiator(last'.sent[i][1]) # Initiator(last'.link)]_vars

(* ---- C12 ---- *)
UserOps == {"sendMessage", "handleReaction", "handleTyping", "triggerAction"}

\* C12: a process that is not the Host sends nothing from a connection handler,
\* whatever the type of the message it takes: all it sends is the message that a
\* local user action has built.
C12_GuestNeverRelays ==
  (last.proc \in Guests /\ peerInstance[last.proc] # hostPeerId /\ last.sent # <<>>)
    => /\ last.op \in UserOps
       /\ \A i \in 1..Len(last.sent) : last.sent[i][2] = last.msg

\* a Guest whose link is open has taken a typing notice of the other Guest, which
\* the Host relayed, and has sent nothing
C12_Witness ==
  /\ last.op = "data"
  /\ last.proc \in Guests
  /\ last.msg.type = "TYPING"
  /\ last.msg.payload.userId \in Guests \ {last.proc}
  /\ connA[<<last.proc, 1>>] = "open"
  /\ connB[<<last.proc, 1>>] = "open"
  /\ Len(messages[last.proc]) = 1
  /\ last.sent = <<>>

(* ---- C13 ---- *)
\* message ids are <<origin, n>>, n counting the messages of the origin as sent
\* C13: in every log, two messages of one origin stand in the order in which the
\* origin sent them.
C13_PerOriginOrder ==
  \A p \in Procs : \A i, j \in 1..Len(messages[p]) :
     (/\ messages[p][i].id[1] = messages[p][j].id[1]
      /\ messages[p][i].id[2] < messages[p][j].id[2])
     => i < j

\* the log of a Guest holds two messages of the other Guest, relayed by the Host
C13_Witness ==
  \E p \in Guests : \E o \in Guests \ {p} :
     /\ Len(messages[p]) = 2
     /\ \A i \in 1..2 : messages[p][i].id[1] = o
     /\ Len(messages[H]) = 2

(* ---- C21 ---- *)
\* groupReactions: the group of an emoji, its senders by identity, in list order
groupReactions(reactions, emoji) ==
  LET group == SelectSeq(reactions, LAMBDA r : r.emoji = emoji)
  IN [count |-> Len(group), senders |-> [k \in 1..Len(group) |-> group[k].senderId]]

\* the reactions a log shows for a message it holds
ReactionsOf(log, messageId) == Find(log, messageId).reactions

ReactionInFlight ==
  \E l \in Links : \E q \in {toHost[l], toPeer[l]} :
     \E k \in 1..Len(q) : q[k].type = "REACTION"

\* both Guests have reacted with emoji e to message mid and every REACTION has
\* been delivered
BothReacted(mid, e) ==
  /\ ~ReactionInFlight
  /\ \A g \in Guests :
        /\ peerInstance[g] = g
        /\ mid \in Ids(messages[g])
        /\ HasReacted(Find(messages[g], mid), g, e)
  /\ mid \in Ids(messages[H])

\* the Host puts a reaction it takes behind those it has: its list is in the order
\* of arrival
HostAppendsOnArrival ==
  (/\ last'.op = "data"
   /\ last'.proc = H
   /\ last'.msg.type = "REACTION"
   /\ last'.msg.payload.action = "add"
   /\ last'.msg.payload.messageId \in Ids(messages[H])
   /\ <<last'.msg.payload.senderId, last'.msg.payload.emoji>>
         \notin ReactionPairs(messages[H], last'.msg.payload.messageId))
  => LET rp == last'.msg.payload
         old == ReactionsOf(messages[H], rp.messageId)
         new == ReactionsOf(messages'[H], rp.messageId)
     IN /\ Len(new) = Len(old) + 1
        /\ SubSeq(new, 1, Len(old)) = old
        /\ new[Len(new)].senderId = rp.senderId

SameEmojiRaceGroups ==
  \A mid \in SentMessageIds : \A e \in Emojis :
     BothReacted(mid, e) =>
       \A p \in Procs :
          (Mounted(p) /\ mid \in Ids(messages[p])) =>
            LET g == groupReactions(ReactionsOf(messages[p], mid), e)
                h == groupReactions(ReactionsOf(messages[H], mid), e)
            IN /\ g.count = 2
               /\ {g.senders[k] : k \in 1..Len(g.senders)} = Guests
               /\ g.senders = h.senders

\* C21: when the two Guests have reacted with one emoji to one message and both
\* REACTION messages are delivered, the group of the emoji has count 2 and one
\* entry per sender in every process that shows the message, in the order in which
\* the reactions arrived at the Host (the order of the Host's list).
C21_SameEmojiRaceOrder == [](SameEmojiRaceGroups) /\ [][HostAppendsOnArrival]_vars

(* ---- C22 ---- *)
\* the step is the data handler of p taking a TYPING message
TakesTyping(p) ==
  /\ last'.op = "data"
  /\ last'.proc = p
  /\ last'.msg.type = "TYPING"
  /\ ~(p = H /\ rejected[last'.link])

\* the step runs cleanup() in p, or closes a link of p to identity x
TearsDownOrCloses(p, x) ==
  \/ last'.proc = p /\ last'.op = "unmount"
  \/ last'.proc = p /\ last'.op = "data" /\ last'.msg.type = "KICKED"
  \/ last'.proc = p /\ last'.op \in {"close", "closeTimer"} /\ ConnPeer(p, last'.link) = x

LastTypingEventDecides ==
  \A p \in Procs :
     /\ TakesTyping(p) =>
          LET x == last'.msg.payload.userId IN
          /\ (x \in typingUsers'[p]) = last'.msg.payload.isTyping
          /\ typingUsers'[p] \ {x} = typingUsers[p] \ {x}
          /\ ((x \in typingUsers[p]) = last'.msg.payload.isTyping)
                => typingUsers'[p] = typingUsers[p]
     /\ \A x \in Identities :
          ((x \in typingUsers'[p]) # (x \in typingUsers[p]))
            => \/ TakesTyping(p) /\ last'.msg.payload.userId = x
               \/ TearsDownOrCloses(p, x)

\* C22: a TYPING event for identity X leaves X in the typing set of the receiver
\* exactly if it says isTyping, whatever the set held; an event that repeats the
\* value leaves the set as it is, other identities are not touched, and between
\* two events for X the mark of X stays (until the process tears down or the
\* link to X closes).
C22_LastTypingEventDecides == [][LastTypingEventDecides]_vars

\* the Host has taken the end of typing of one Guest while the other is marked,
\* and a further notice of the first Guest is on its way
C22_Witness ==
  /\ last.op = "data"
  /\ last.proc = H
  /\ last.msg.type = "TYPING"
  /\ ~last.msg.payload.isTyping
  /\ typingUsers[H] = Guests \ {last.msg.payload.userId}
  /\ toHost[last.link] # <<>>
  /\ Head(toHost[last.link]).payload.isTyping

(* ---- C23 ---- *)
\* the step is the Host's close handler for a link of identity x
HostLinkCloses(x) ==
  /\ last'.proc = H
  /\ last'.op \in {"close", "closeTimer"}
  /\ connB[last'.link] = "open"
  /\ ~rejected[last'.link]
  /\ Initiator(last'.link) = x
  /\ peerInstance[H] = hostPeerId

\* C23: when the link of a peer marked typing closes, the Host takes the peer out
\* of its typing set, and a Guest that has taken the directory update holds no
\* typing mark of an identity the directory does not list.
C23_DisconnectClearsTyping ==
  /\ [][\A x \in Identities : HostLinkCloses(x) => x \notin typingUsers'[H]]_vars
  /\ [](GuestTookSync => typingUsers[last.proc] \subseteq Ids(last.msg.payload))

(* ---- C24 ---- *)
\* C24: when the assistant fails on an @ai message, the log of the process gets
\* exactly one more message, of kind SYSTEM (none of kind AI), and the process
\* stays in the session.
C24_AssistantFailureIsSystemMessage ==
  [][\A p \in Procs :
       (last'.op = "assistantFailed" /\ last'.proc = p)
       => /\ Len(messages'[p]) = Len(messages[p]) + 1
          /\ SubSeq(messages'[p], 1, Len(messages[p])) = messages[p]
          /\ messages'[p][Len(messages'[p])].type = "SYSTEM"
          /\ peerInstance'[p] = peerInstance[p]
          /\ kickReason'[p] = kickReason[p]]_vars

(* ---- C25 ---- *)
\* every message the last handler sent went out on a link that is open at the
\* sender
SentOnOpenLinks ==
  \A i \in 1..Len(last.sent) :
     /\ last.proc \in Procs
     /\ last.sent[i][1] \in LinksOf(last.proc)
     /\ ConnOpen(last.proc, last.sent[i][1])

\* what process p has put in flight on link l
Outbox(p, l) == IF p = H THEN toPeer[l] ELSE toHost[l]

\* a user action of p sends nothing on a link of p that is not open, does its
\* local state change, and leaves p in the session
DroppedSilently ==
  \A p \in Procs :
     (last'.proc = p /\ last'.op \in UserOps \cup {"handleSend"})
     => /\ \A l \in LinksOf(p) : ~ConnOpen(p, l) => Outbox(p, l)' = Outbox(p, l)
        /\ last'.op \in {"sendMessage", "handleSend"}
             => messages'[p] = Append(messages[p], last'.msg.payload)
        /\ last'.op = "handleReaction"
             => messages'[p] = toggleReaction(messages[p], last'.msg.payload.messageId,
                                              last'.msg.payload.emoji, peerId[p],
                                              last'.msg.payload.senderName)
        /\ kickReason'[p] = kickReason[p]
        /\ peerInstance'[p] = peerInstance[p]

NonHostModerates(p) ==
  /\ last'.op = "triggerAction"
  /\ last'.proc = p
  /\ ~isHost[p]

HostLinkOpen(p) ==
  /\ hostPeerId \in KeySet(connectionsRef[p])
  /\ ConnOpen(p, Lookup(connectionsRef[p], hostPeerId))

NonHostOnlyRequests ==
  \A p \in Procs :
     /\ NonHostModerates(p) =>
          /\ participants'[p] = participants[p]
          /\ bannedPeers'[p] = bannedPeers[p]
          /\ connectionsRef'[p] = connectionsRef[p]
          /\ closeTimers' = closeTimers /\ syncTimers' = syncTimers
          /\ last'.msg.type = "ADMIN_REQUEST"
          /\ DOMAIN last'.msg.payload = {"action", "targetId"}
          /\ last'.sent = IF HostLinkOpen(p)
                          THEN <<<<Lookup(connectionsRef[p], hostPeerId), last'.msg>>>>
                          ELSE <<>>
     /\ (/\ p \in Guests
         /\ ConnOpen(p, <<p, 1>>)
         /\ ConnOpen(p, <<p, 1>>)'
         /\ participants'[p] # participants[p])
        => /\ last'.op = "data"
           /\ last'.proc = p
           /\ last'.msg.type = "SYNC_PARTICIPANTS"

\* C26: a moderation command issued in a process that is not the Host changes
\* neither the directory nor the ban list nor the registry of that process and
\* sends one ADMIN_REQUEST{action, targetId} on its link to the Host; the
\* directory of a connected Guest changes only by taking a SYNC_PARTICIPANTS.
C26_NonHostOnlyRequests == [][NonHostOnlyRequests]_vars

\* a Guest that is MANAGER has asked for the KICK of a peer it lists as GUEST and
\* still lists it; the request is in flight to the Host
C26_Witness ==
  \E g \in Guests :
     /\ last.op = "triggerAction"
     /\ last.proc = g
     /\ last.msg.payload.action = "KICK"
     /\ RoleIn(participants[g], g) = "MANAGER"
     /\ RoleIn(participants[g], last.msg.payload.targetId) = "GUEST"
     /\ last.sent = <<<<(<<g, 1>>), last.msg>>>>
     /\ toHost[<<g, 1>>] # <<>>

(* ---- C27 ---- *)
\* C27: when no REACTION is in flight, every process that holds a message the
\* Host holds has the same (senderId, emoji) pairs on it as the Host.
C27_ReplicasConverge ==
  ~ReactionInFlight =>
    \A p \in Procs : \A mid \in Ids(messages[p]) \cap Ids(messages[H]) :
       (Mounted(p) /\ Mounted(H))
       => ReactionPairs(messages[p], mid) = ReactionPairs(messages[H], mid)

(* ---- C28 ---- *)
\* the step is the Host's data handler taking a SYNC_PARTICIPANTS on a link it has
\* admitted
HostTakesSync ==
  /\ last'.op = "data"
  /\ last'.proc = H
  /\ last'.msg.type = "SYNC_PARTICIPANTS"
  /\ peerInstance[H] = hostPeerId
  /\ ~rejected[last'.link]

\* C28: a SYNC_PARTICIPANTS that arrives at the Host leaves the Host's directory
\* as it is: membership and roles on the Host are written by the Host only.
C28_HostDirectorySingleWriter ==
  [][HostTakesSync => participants'[H] = participants[H]]_vars

(* ---- C29 ---- *)
\* an entry that the directory of p holds before and after the step has another
\* role or name after it
EntryChanges(p) ==
  \E id \in Ids(participants[p]) \cap Ids(participants'[p]) :
     \/ Find(participants'[p], id).role # Find(participants[p], id).role
     \/ Find(participants'[p], id).name # Find(participants[p], id).name

\* the step executes a PROMOTE or DEMOTE on the Host
HostExecutesRoleChange ==
  /\ last'.proc = H
  /\ \/ last'.op = "triggerAction"
     \/ last'.op = "data" /\ last'.msg.type = "ADMIN_REQUEST"
  /\ last'.msg.payload.action \in {"PROMOTE", "DEMOTE"}

\* C29: the role and name of an entry of a directory change only by a PROMOTE or
\* DEMOTE executed on the Host, or on a Guest by the replacement of the directory
\* with a SYNC_PARTICIPANTS; link open, link close and reconciliation leave the
\* entries of the peers that stay as they are.
C29_RolesChangeOnlyByModeration ==
  [][\A p \in Procs :
       EntryChanges(p) =>
         IF peerInstance[p] = hostPeerId
         THEN HostExecutesRoleChange
         ELSE /\ last'.op = "data"
              /\ last'.proc = p
              /\ last'.msg.type = "SYNC_PARTICIPANTS"]_vars

(* ---- C30 ---- *)
\* the links of identity t that are open at the Host and that it has admitted
\* (OpenAdmitted: the links open at the Host that it has not turned away)
OpenLinksOf(t) == {l \in OpenAdmitted : Initiator(l) = t}

\* the step is the Host's user executing KICK or BAN on a target with an open link
HostRemoves ==
  /\ last'.op = "triggerAction"
  /\ last'.proc = H
  /\ isHost[H]
  /\ peerInstance[H] = hostPeerId
  /\ last'.msg.payload.action \in {"KICK", "BAN"}
  /\ OpenLinksOf(last'.msg.payload.targetId) # {}

\* the step closes, at the Host, a link whose close a KICK or BAN has scheduled
RemovalCloses ==
  /\ last'.proc = H
  /\ \/ last'.op = "closeTimer"
     \/ last'.op = "close" /\ last'.link \in closeTimers
  /\ peerInstance[H] = hostPeerId
  /\ ~rejected[last'.link]
  /\ connB[last'.link] = "open"

\* C30: a KICK or BAN that the Host executes on a target with an open link sends
\* KICKED on a link of the target and on no other link, leaves that link open and
\* schedules its close; when the link closes, the target is neither in the Host's
\* directory nor in the SYNC_PARTICIPANTS the Host sends on closing.
C30_RemovalDelivery ==
  /\ [][HostRemoves =>
          \E l \in OpenLinksOf(last'.msg.payload.targetId) :
             /\ Len(last'.sent) = 1
             /\ last'.sent[1][1] = l
             /\ last'.sent[1][2].type = "KICKED"
             /\ connB'[l] = "open"
             /\ l \in closeTimers']_vars
  /\ [][RemovalCloses =>
          /\ connB'[last'.link] = "closed"
          /\ Initiator(last'.link) \notin Ids(participants'[H])
          /\ \A list \in SyncPayloads(last'.sent) :
                Initiator(last'.link) \notin Ids(list)]_vars

(* ---- C34 ---- *)
\* the step is the Host's user executing BAN
HostExecutesBan ==
  /\ last'.op = "triggerAction"
  /\ last'.proc = H
  /\ isHost[H]
  /\ peerInstance[H] = hostPeerId
  /\ last'.msg.payload.action = "BAN"

\* the step tears the Host down (cleanup ran)
HostTearsDown == peerInstance[H] # NullPeer /\ peerInstance'[H] = NullPeer

\* C34: when the Host executes BAN on a target, the target is in the BanList
\* afterwards, whether or not it has an open link; and no step other than the
\* Host's teardown takes an identity out of the BanList.
C34_BanRecordedAndKept ==
  /\ [][HostExecutesBan => last'.msg.payload.targetId \in bannedPeers'[H]]_vars
  /\ [][bannedPeers[H] \subseteq bannedPeers'[H] \/ HostTearsDown]_vars

\* a banned identity without an open link at the Host, just after the Host's
\* user banned it
C34_Witness ==
  /\ last.op = "triggerAction"
  /\ last.proc = H
  /\ last.msg.payload.action = "BAN"
  /\ last.sent = <<>>
  /\ last.msg.payload.targetId \in bannedPeers[H]
  /\ OpenLinksOf(last.msg.payload.targetId) = {}

(* ---- C37 ---- *)
\* the step is the data handler of p taking a REACTION whose messageId is not in
\* p's message log
TakesUnknownReaction(p) ==
  /\ last'.op = "data"
  /\ last'.proc = p
  /\ last'.msg.type = "REACTION"
  /\ ~(p = H /\ rejected[last'.link])
  /\ \A i \in 1..Len(messages[p]) : messages[p][i].id # last'.msg.payload.messageId

\* the log part: the receiver's message log is as it was
UnknownReactionLeavesLog ==
  \A p \in Procs : TakesUnknownReaction(p) => messages'[p] = messages[p]

\* C37: a REACTION whose messageId is not in the receiver's message log leaves
\* that log unchanged, and the Host still sends it on every other open link.
C37_UnknownReactionRelayed ==
  [][/\ UnknownReactionLeavesLog
     /\ (TakesUnknownReaction(H) /\ peerInstance[H] = hostPeerId)
          => \A l \in OtherOpenLinks(last'.link) :
                \E i \in 1..Len(last'.sent) : last'.sent[i] = <<l, last'.msg>>]_vars

(* ---- C38 ---- *)
\* the step delivers, at the Host, a message on a link the Host has turned away
HostGetsDataOnRejected ==
  /\ last'.op = "data"
  /\ last'.proc = H
  /\ rejected[last'.link]

\* C38: a message that arrives on a link the Host turned away for the ban changes
\* neither the Host's message log, typing set, directory nor ban list, starts no
\* timer (no moderation is executed) and is sent on no link.
C38_RejectedLinkIsMute ==
  [][HostGetsDataOnRejected =>
       /\ messages'[H] = messages[H]
       /\ typingUsers'[H] = typingUsers[H]
       /\ participants'[H] = participants[H]
       /\ bannedPeers'[H] = bannedPeers[H]
       /\ peerInstance'[H] = peerInstance[H]
       /\ closeTimers' = closeTimers
       /\ syncTimers' = syncTimers
       /\ last'.sent = <<>>]_vars

\* the banned peer's forged CHAT arrived on a link the Host turned away, while
\* the link of a Guest was open at the Host
C38_Witness ==
  /\ last.op = "data"
  /\ last.proc = H
  /\ last.link \in Links
  /\ rejected[last.link]
  /\ Initiator(last.link) \in bannedPeers[H]
  /\ last.msg.type = "CHAT"
  /\ \E l \in OpenAdmitted : Initiator(l) \in Guests

(* ---- C33 ---- *)
ApplicationTypes == {"CHAT", "REACTION", "TYPING", "ADMIN_REQUEST"}

\* the step is the Host's data handler taking an application message
HostTakesApplication ==
  /\ last'.op = "data"
  /\ last'.proc = H
  /\ last'.msg.type \in ApplicationTypes
  /\ peerInstance[H] = hostPeerId
  /\ ~rejected[last'.link]

\* the step is the Host's open handler admitting a link
HostAdmits ==
  /\ last'.op = "open"
  /\ last'.proc = H
  /\ peerInstance[H] = hostPeerId
  /\ ~rejected[last'.link]

\* C33: the Host's open handler leaves the peer of the link in the directory, and
\* when the Host's data handler takes a CHAT, REACTION, TYPING or ADMIN_REQUEST on
\* a link, that link is open at the Host and its peer is in the directory.
C33_AdmissionBeforeProcessing ==
  /\ [][HostAdmits => Initiator(last'.link) \in Ids(participants'[H])]_vars
  /\ [][HostTakesApplication =>
          /\ connB[last'.link] = "open"
          /\ Initiator(last'.link) \in Ids(participants[H])]_vars

(* ---- C32 ---- *)
LocalEventOps ==
  UserOps \cup {"handleSend", "assistantReplied", "assistantFailed"}

\* the registry part: a process that runs as a Guest has at most one registered
\* connection, and it is the one to the Host
GuestRegistryIsHostLink ==
  \A g \in Guests :
     peerInstance[g] = g =>
        /\ Len(connectionsRef[g]) <= 1
        /\ \A i \in 1..Len(connectionsRef[g]) :
              /\ connectionsRef[g][i].key = hostPeerId
              /\ connectionsRef[g][i].conn = <<g, 1>>

\* the send part: what a user action of a Guest sends goes on its link to the Host
GuestSendsToHostOnly ==
  \A g \in Guests :
     (last'.proc = g /\ last'.op \in LocalEventOps /\ peerInstance[g] = g) =>
        \A i \in 1..Len(last'.sent) : last'.sent[i][1] = <<g, 1>>

\* C32: a Guest's registry holds at most one connection, the one to the Host, and
\* every CHAT, REACTION, TYPING or ADMIN_REQUEST of a Guest's user goes on that
\* link and on no other.
C32_GuestHasOnlyHostLink ==
  [](GuestRegistryIsHostLink) /\ [][GuestSendsToHostOnly]_vars

(* ---- C39 ---- *)
LogIds(log) == {log[i].id : i \in 1..Len(log)}

\* the step puts message ids in the log of Guest g that were not there
GainedIds(g) == LogIds(messages'[g]) \ LogIds(messages[g])

\* the Host sends a CHAT in this step
HostSendsChat(i) ==
  /\ last'.proc = H
  /\ i \in 1..Len(last'.sent)
  /\ last'.sent[i][2].type = "CHAT"

\* C39: the Host's open handler sends nothing but the participant list; the Host
\* sends a CHAT only in the step in which it sends or relays that message, and
\* only on links that are open then; and a message enters a Guest's log only when
\* the Guest's user sends it or when it arrives as a CHAT on the Guest's link to
\* the Host.
C39_NoHistoryOnAdmission ==
  /\ [][HostAdmits =>
          \A i \in 1..Len(last'.sent) :
             last'.sent[i][2].type = "SYNC_PARTICIPANTS"]_vars
  /\ [][\A i \in 1..Len(last'.sent) :
          HostSendsChat(i) =>
             /\ last'.op \in LocalEventOps \cup {"data"}
             /\ last'.sent[i][2] = last'.msg
             /\ connB[last'.sent[i][1]] = "open"]_vars
  /\ [][\A g \in Guests :
          (peerInstance[g] = g /\ GainedIds(g) # {}) =>
             /\ last'.proc = g
             /\ last'.msg.type = "CHAT"
             /\ GainedIds(g) = {last'.msg.payload.id}
             /\ \/ last'.op \in LocalEventOps
                \/ last'.op = "data" /\ last'.link = <<g, 1>>]_vars

(* ---- C31 ---- *)
\* cleanup() has run in process p
TornDown(p) == peerInstance[p] = NullPeer

\* the connection objects of p: none is pending or open
AllLinksClosed(p) ==
  \A l \in AllLinks :
     (p = Target(l) \/ p = Initiator(l)) => LocalEnd(p, l) \notin {"pending", "open"}

\* the step adds nothing to the registry, directory, log, typing set and ban list
\* of p, and p sends nothing in it
NothingAdded(p) ==
  /\ KeySet(connectionsRef'[p]) \subseteq KeySet(connectionsRef[p])
  /\ Ids(participants'[p]) \subseteq Ids(participants[p])
  /\ LogIds(messages'[p]) \subseteq LogIds(messages[p])
  /\ typingUsers'[p] \subseteq typingUsers[p]
  /\ bannedPeers'[p] \subseteq bannedPeers[p]
  /\ last'.proc = p => last'.sent = <<>>

\* C31: once a process has torn down, all its links are closed, and no later step
\* (a deferred directory broadcast, a delayed link close, a pending assistant
\* reply, a late link event) adds an entry to its registry, directory, message
\* log, typing set or ban list, or sends a message.
C31_TeardownIsFinal ==
  /\ [](\A p \in Procs : TornDown(p) => AllLinksClosed(p))
  /\ [][\A p \in Procs : TornDown(p) => NothingAdded(p)]_vars

(* ---- C36 ---- *)
\* the onTyping calls of p so far are true, false, true, false, ...
Alternates(p) ==
  \A i \in 1..Len(onTypingCalls[p]) : onTypingCalls[p][i] = (i % 2 = 1)

\* the last onTyping call of p was onTyping(true)
TypingSignalled(p) == Len(onTypingCalls[p]) % 2 = 1

\* C36: the onTyping calls of a process alternate, starting with onTyping(true),
\* and every onTyping(true) is followed by an onTyping(false).
C36_TypingAlternates ==
  /\ [](\A p \in Procs : Alternates(p))
  /\ \A p \in Procs : TypingSignalled(p) ~> ~TypingSignalled(p)

\* a process has signalled and ended typing twice, the second time by the timer,
\* and the notice of the end has gone out
C36_Witness ==
  \E p \in Procs :
     /\ Len(onTypingCalls[p]) = MaxTyping
     /\ last.op = "typingTimeout"
     /\ last.proc = p
     /\ last.sent # <<>>

(* ---- C35 ---- *)
\* the Host has just admitted a link, removed one, or changed a role
HostChangedDirectory ==
  /\ last.proc = H
  /\ peerInstance[H] = hostPeerId
  /\ \/ last.op \in {"open", "close", "closeTimer"} /\ ~rejected[last.link]
     \/ /\ last.op = "triggerAction"
        /\ last.msg.payload.action \in {"PROMOTE", "DEMOTE"}

\* the Host has just sent its directory on link l
SyncSentOn(l) ==
  /\ last.proc = H
  /\ \E i \in 1..Len(last.sent) :
        last.sent[i] = <<l, [type |-> "SYNC_PARTICIPANTS", payload |-> participants[H]]>>

\* Guest g and the Host both hold the link of g open
Connected(g) == connA[<<g, 1>>] = "open" /\ connB[<<g, 1>>] = "open"

\* C35: after the Host has admitted a link, removed one or changed a role, every
\* link that is open at the Host is sent the Host's directory in a
\* SYNC_PARTICIPANTS, unless the link closes first; and in the end the list of
\* every connected Guest equals the Host's.
C35_DirectoryReachesEveryLink ==
  /\ \A l \in Links :
        (HostChangedDirectory /\ l \in OpenAdmitted)
           ~> (SyncSentOn(l) \/ l \notin OpenAdmitted)
  /\ <>[](\A g \in Guests : Connected(g) => participants[g] = participants[H])
====
